---- MODULE Spec2Model ----
(***************************************************************************)
(* Model of the Seiko store's asset manager (src/app/core/assets.py).      *)
(*                                                                         *)
(* A Python str is a sequence of code points (naturals); a bytes object is *)
(* a sequence of naturals below 256.  A 32-bit word is a pair <<hi, lo>>   *)
(* of 16-bit halves, so that no intermediate value leaves TLC's integers.  *)
(***************************************************************************)
EXTENDS Integers, Sequences, FiniteSets, TLC

(***************************************************************************)
(* Arithmetic helpers                                                      *)
(***************************************************************************)
RECURSIVE Pow2(_)
Pow2(n) == IF n = 0 THEN 1 ELSE 2 * Pow2(n - 1)

Min(a, b) == IF a < b THEN a ELSE b

\* The element of a one-element set.  The({F(v) : v \in {x}}) is F(x) with x
\* evaluated once, before F is.
The(S) == CHOOSE y \in S : TRUE

\* the concatenation of the sequences in ss, by halves
RECURSIVE Concat(_)
Concat(ss) ==
  CASE Len(ss) = 0 -> <<>>
    [] Len(ss) = 1 -> ss[1]
    [] OTHER ->
         The({Concat(SubSeq(v, 1, Len(v) \div 2)) \o Concat(SubSeq(v, (Len(v) \div 2) + 1, Len(v))) :
                v \in {ss}})

(***************************************************************************)
(* hashlib.md5 (RFC 1321), as called at assets.py:69, 94, 115              *)
(***************************************************************************)
RECURSIVE BitAnd(_, _, _)
BitAnd(n, a, b) ==
  IF n = 0 THEN 0
  ELSE (IF (a % 2 = 1) /\ (b % 2 = 1) THEN 1 ELSE 0) + (2 * BitAnd(n - 1, a \div 2, b \div 2))

RECURSIVE BitXor(_, _, _)
BitXor(n, a, b) ==
  IF n = 0 THEN 0
  ELSE (IF (a % 2) # (b % 2) THEN 1 ELSE 0) + (2 * BitXor(n - 1, a \div 2, b \div 2))

\* 4-bit tables, so a 16-bit operation is four look-ups
AndTable == [a \in 0..15 |-> [b \in 0..15 |-> BitAnd(4, a, b)]]
XorTable == [a \in 0..15 |-> [b \in 0..15 |-> BitXor(4, a, b)]]

And16(a, b) ==
    AndTable[a % 16][b % 16]
  + (16 * AndTable[(a \div 16) % 16][(b \div 16) % 16])
  + (256 * AndTable[(a \div 256) % 16][(b \div 256) % 16])
  + (4096 * AndTable[a \div 4096][b \div 4096])

Xor16(a, b) ==
    XorTable[a % 16][b % 16]
  + (16 * XorTable[(a \div 16) % 16][(b \div 16) % 16])
  + (256 * XorTable[(a \div 256) % 16][(b \div 256) % 16])
  + (4096 * XorTable[a \div 4096][b \div 4096])

W32And(x, y) == <<And16(x[1], y[1]), And16(x[2], y[2])>>
W32Xor(x, y) == <<Xor16(x[1], y[1]), Xor16(x[2], y[2])>>
W32Not(x) == <<65535 - x[1], 65535 - x[2]>>
\* a | b = (a ^ b) + (a & b), the two summands having no bit in common
W32Or(x, y) ==
  <<Xor16(x[1], y[1]) + And16(x[1], y[1]), Xor16(x[2], y[2]) + And16(x[2], y[2])>>

W32Add(x, y) ==
  LET lo == x[2] + y[2]
  IN  <<(x[1] + y[1] + (lo \div 65536)) % 65536, lo % 65536>>

PowersOf2 == [n \in 0..16 |-> Pow2(n)]

W32Rotl(x, s) ==
  LET y == IF s >= 16 THEN <<x[2], x[1]>> ELSE x
      up == PowersOf2[s % 16]
      down == PowersOf2[16 - (s % 16)]
  IN  <<((y[1] * up) % 65536) + (y[2] \div down),
        ((y[2] * up) % 65536) + (y[1] \div down)>>

MD5_K ==
  <<<<55146, 42104>>, <<59591, 46934>>, <<9248, 28891>>, <<49597, 52974>>,
    <<62844, 4015>>, <<18311, 50730>>, <<43056, 17939>>, <<64838, 38145>>,
    <<27008, 39128>>, <<35652, 63407>>, <<65535, 23473>>, <<35164, 55230>>,
    <<27536, 4386>>, <<64920, 29075>>, <<42617, 17294>>, <<18868, 2081>>,
    <<63006, 9570>>, <<49216, 45888>>, <<9822, 23121>>, <<59830, 51114>>,
    <<54831, 4189>>, <<580, 5203>>, <<55457, 59009>>, <<59347, 64456>>,
    <<8673, 52710>>, <<49975, 2006>>, <<62677, 3463>>, <<17754, 5357>>,
    <<43491, 59653>>, <<64751, 41976>>, <<26479, 729>>, <<36138, 19594>>,
    <<65530, 14658>>, <<34673, 63105>>, <<28061, 24866>>, <<64997, 14348>>,
    <<42174, 59972>>, <<19422, 53161>>, <<63163, 19296>>, <<48831, 48240>>,
    <<10395, 32454>>, <<60065, 10234>>, <<54511, 12421>>, <<1160, 7429>>,
    <<55764, 53305>>, <<59099, 39397>>, <<8098, 31992>>, <<50348, 22117>>,
    <<62505, 8772>>, <<17194, 65431>>, <<43924, 9127>>, <<64659, 41017>>,
    <<25947, 22979>>, <<36620, 52370>>, <<65519, 62589>>, <<34180, 24017>>,
    <<28584, 32335>>, <<65068, 59104>>, <<41729, 17172>>, <<19976, 4513>>,
    <<63315, 32386>>, <<48442, 62005>>, <<10967, 53947>>, <<60294, 54161>>>>

MD5_S ==
  <<7, 12, 17, 22, 7, 12, 17, 22, 7, 12, 17, 22, 7, 12, 17, 22,
    5, 9, 14, 20, 5, 9, 14, 20, 5, 9, 14, 20, 5, 9, 14, 20,
    4, 11, 16, 23, 4, 11, 16, 23, 4, 11, 16, 23, 4, 11, 16, 23,
    6, 10, 15, 21, 6, 10, 15, 21, 6, 10, 15, 21, 6, 10, 15, 21>>

\* 0x67452301, 0xefcdab89, 0x98badcfe, 0x10325476
MD5_Init == <<<<26437, 8961>>, <<61389, 43913>>, <<39098, 56574>>, <<4146, 21622>>>>

\* message || 0x80 || zeros || bit length as 8 little-endian bytes
MD5_Pad(bytes) ==
  LET n == Len(bytes)
      z == (55 - n) % 64
      bits == 8 * n
  IN  bytes \o <<128>> \o [i \in 1..z |-> 0]
        \o [i \in 1..8 |-> IF i <= 4 THEN (bits \div Pow2(8 * (i - 1))) % 256 ELSE 0]

\* the 16 little-endian words of block blk (counted from 0) of msg
MD5_Words(msg, blk) ==
  [j \in 0..15 |->
     LET o == 64 * blk + 4 * j
     IN  <<msg[o + 3] + 256 * msg[o + 4], msg[o + 1] + 256 * msg[o + 2]>>]

MD5_Step(st, i, M) ==
  LET A == st[1]
      B == st[2]
      C == st[3]
      D == st[4]
      F == CASE i < 16 -> W32Or(W32And(B, C), W32And(W32Not(B), D))
             [] i < 32 -> W32Or(W32And(D, B), W32And(W32Not(D), C))
             [] i < 48 -> W32Xor(B, W32Xor(C, D))
             [] OTHER  -> W32Xor(C, W32Or(B, W32Not(D)))
      g == CASE i < 16 -> i
             [] i < 32 -> (5 * i + 1) % 16
             [] i < 48 -> (3 * i + 5) % 16
             [] OTHER  -> (7 * i) % 16
      T == W32Add(W32Add(A, F), W32Add(MD5_K[i + 1], M[g]))
  IN  <<D, W32Add(B, W32Rotl(T, MD5_S[i + 1])), B, C>>

\* the 16 steps of round r (counted from 0) applied to state st
MD5_Round(st, r, M) ==
  LET S[i \in 0..16] ==
        IF i = 0 THEN st
        ELSE The({MD5_Step(p, (16 * r) + i - 1, M) : p \in {S[i - 1]}})
  IN  S[16]

\* the four rounds applied to state st for the block with words M
MD5_Rounds(st, M) ==
  LET R[r \in 0..4] ==
        IF r = 0 THEN st ELSE The({MD5_Round(p, r - 1, M) : p \in {R[r - 1]}})
  IN  R[4]

\* the chaining value h after one more block with words M
MD5_Block(h, M) ==
  The({<<W32Add(h[1], r[1]), W32Add(h[2], r[2]), W32Add(h[3], r[3]), W32Add(h[4], r[4])>> :
         r \in {MD5_Rounds(h, M)}})

\* the chaining value after all blocks of msg
MD5_Blocks(msg) ==
  LET H[n \in 0..(Len(msg) \div 64)] ==
        IF n = 0 THEN MD5_Init
        ELSE The({MD5_Block(h, MD5_Words(msg, n - 1)) : h \in {H[n - 1]}})
  IN  H[Len(msg) \div 64]

\* the four bytes of a word, least significant first
W32Bytes(x) == <<x[2] % 256, x[2] \div 256, x[1] % 256, x[1] \div 256>>

\* the 16 bytes of a digest: the four state words, little-endian
MD5_Digest(st) == W32Bytes(st[1]) \o W32Bytes(st[2]) \o W32Bytes(st[3]) \o W32Bytes(st[4])

md5(bytes) ==
  The({MD5_Digest(st) : st \in {MD5_Blocks(msg) : msg \in {MD5_Pad(bytes)}}})

(***************************************************************************)
(* Python built-ins used by assets.py, on the code points the model draws  *)
(* its inputs from (ASCII, Latin-1 letters, and the surrogate U+D800)      *)
(***************************************************************************)
IsUpper(c) == (65 <= c /\ c <= 90) \/ (192 <= c /\ c <= 222 /\ c # 215)
IsLower(c) == (97 <= c /\ c <= 122) \/ (224 <= c /\ c <= 254 /\ c # 247)
IsCased(c) == IsUpper(c) \/ IsLower(c)
IsSurrogate(c) == 55296 <= c /\ c <= 57343

\* str.lower()
lower(s) == [i \in 1..Len(s) |-> IF IsUpper(s[i]) THEN s[i] + 32 ELSE s[i]]

\* str.replace(old, new) for one-character old and new
replace(s, old, new) == [i \in 1..Len(s) |-> IF s[i] = old THEN new ELSE s[i]]

\* str.title(): a cased character is upper-cased when it does not follow a
\* cased character, and lower-cased when it does
title(s) ==
  [i \in 1..Len(s) |->
     LET after_cased == i > 1 /\ IsCased(s[i - 1])
     IN  CASE IsLower(s[i]) /\ ~after_cased -> s[i] - 32
           [] IsUpper(s[i]) /\ after_cased  -> s[i] + 32
           [] OTHER                         -> s[i]]

\* str(n) and f"{n}" for an int n
RECURSIVE Digits(_)
Digits(n) == IF n < 10 THEN <<48 + n>> ELSE Digits(n \div 10) \o <<48 + (n % 10)>>

str(n) == IF n < 0 THEN <<45>> \o Digits(0 - n) ELSE Digits(n)

\* str.encode(): UTF-8 with errors="strict"; a surrogate code point raises
\* UnicodeEncodeError
encode_raises(s) == \E i \in 1..Len(s) : IsSurrogate(s[i])

utf8(c) ==
  CASE c < 128   -> <<c>>
    [] c < 2048  -> <<192 + (c \div 64), 128 + (c % 64)>>
    [] c < 65536 -> <<224 + (c \div 4096), 128 + ((c \div 64) % 64), 128 + (c % 64)>>
    [] OTHER     -> <<240 + (c \div 262144), 128 + ((c \div 4096) % 64),
                      128 + ((c \div 64) % 64), 128 + (c % 64)>>

encode(s) == Concat([i \in 1..Len(s) |-> utf8(s[i])])

\* urllib.parse.quote(s) with the default safe="/": letters, digits and
\* "_.-~/" are kept, every other byte of the UTF-8 encoding becomes %XX
IsSafeByte(b) ==
  \/ (65 <= b /\ b <= 90) \/ (97 <= b /\ b <= 122) \/ (48 <= b /\ b <= 57)
  \/ b \in {95, 46, 45, 126, 47}

UpperHexDigit(v) == IF v < 10 THEN 48 + v ELSE 55 + v

quote_raises(s) == encode_raises(s)

quote(s) ==
  LET bs == encode(s)
  IN  Concat([i \in 1..Len(bs) |->
        IF IsSafeByte(bs[i]) THEN <<bs[i]>>
        ELSE <<37, UpperHexDigit(bs[i] \div 16), UpperHexDigit(bs[i] % 16)>>])

\* hashlib's hexdigest(): two lower-case hex digits per byte
LowerHexDigit(v) == IF v < 10 THEN 48 + v ELSE 87 + v

hexdigest(d) ==
  Concat([i \in 1..Len(d) |-> <<LowerHexDigit(d[i] \div 16), LowerHexDigit(d[i] % 16)>>])

\* int(s, 16) for at most eight hex digits, as a 32-bit word <<hi, lo>>
HexDigitValue(c) == IF c <= 57 THEN c - 48 ELSE IF c <= 70 THEN c - 55 ELSE c - 87

RECURSIVE HexNumber(_)
HexNumber(s) ==
  IF s = <<>> THEN 0
  ELSE (16 * HexNumber(SubSeq(s, 1, Len(s) - 1))) + HexDigitValue(s[Len(s)])

int16(s) ==
  LET n == Len(s)
  IN  IF n <= 4 THEN <<0, HexNumber(s)>>
      ELSE <<HexNumber(SubSeq(s, 1, n - 4)), HexNumber(SubSeq(s, n - 3, n))>>

\* (hi * 65536 + lo) % m, for m below 2^23
W32Mod(x, m) == ((((x[1] * 256) % m) * 256) + x[2]) % m

SEED_MODULUS == 10000

\* md5_seed with the digest prefix reduced modulo 100000
md5_seed_mod_100000(text) ==
  The({W32Mod(n, 10 * SEED_MODULUS) :
         n \in {int16(SubSeq(h, 1, 8)) :
                 h \in {hexdigest(d) : d \in {md5(b) : b \in {encode(text)}}}}})

\* int(hashlib.md5(text.encode()).hexdigest()[:8], 16) % 10000
md5_seed(text) ==
  The({W32Mod(n, SEED_MODULUS) :
         n \in {int16(SubSeq(h, 1, 8)) :
                 h \in {hexdigest(d) : d \in {md5(b) : b \in {encode(text)}}}}})

(***************************************************************************)
(* SeikoAssetManager: class attributes and instance fields                 *)
(***************************************************************************)
SEIKO_WATCH_CATEGORIES ==
     (<<104, 101, 114, 111>> (* "hero" *) :> <<<<115, 101, 105, 107, 111, 43, 119, 97, 116, 99, 104, 43, 108, 117, 120, 117, 114, 121>> (* "seiko+watch+luxury" *), <<108, 117, 120, 117, 114, 121, 43, 116, 105, 109, 101, 112, 105, 101, 99, 101>> (* "luxury+timepiece" *), <<112, 114, 101, 109, 105, 117, 109, 43, 119, 97, 116, 99, 104>> (* "premium+watch" *),
                   <<115, 101, 105, 107, 111, 43, 97, 117, 116, 111, 109, 97, 116, 105, 99>> (* "seiko+automatic" *), <<119, 97, 116, 99, 104, 43, 99, 111, 108, 108, 101, 99, 116, 105, 111, 110>> (* "watch+collection" *), <<108, 117, 120, 117, 114, 121, 43, 119, 114, 105, 115, 116, 119, 97, 116, 99, 104>> (* "luxury+wristwatch" *)>>)
  @@ (<<112, 114, 111, 100, 117, 99, 116, 115>> (* "products" *) :> <<<<115, 101, 105, 107, 111, 43, 119, 97, 116, 99, 104, 43, 102, 97, 99, 101>> (* "seiko+watch+face" *), <<119, 97, 116, 99, 104, 43, 100, 101, 116, 97, 105, 108>> (* "watch+detail" *), <<116, 105, 109, 101, 112, 105, 101, 99, 101, 43, 99, 108, 111, 115, 101>> (* "timepiece+close" *),
                       <<108, 117, 120, 117, 114, 121, 43, 119, 97, 116, 99, 104, 43, 98, 97, 110, 100>> (* "luxury+watch+band" *), <<115, 101, 105, 107, 111, 43, 109, 111, 118, 101, 109, 101, 110, 116>> (* "seiko+movement" *), <<119, 97, 116, 99, 104, 43, 99, 114, 97, 102, 116, 115, 109, 97, 110, 115, 104, 105, 112>> (* "watch+craftsmanship" *)>>)
  @@ (<<108, 105, 102, 101, 115, 116, 121, 108, 101>> (* "lifestyle" *) :> <<<<98, 117, 115, 105, 110, 101, 115, 115, 109, 97, 110, 43, 119, 97, 116, 99, 104>> (* "businessman+watch" *), <<108, 117, 120, 117, 114, 121, 43, 108, 105, 102, 101, 115, 116, 121, 108, 101>> (* "luxury+lifestyle" *),
                        <<112, 114, 111, 102, 101, 115, 115, 105, 111, 110, 97, 108, 43, 116, 105, 109, 101, 112, 105, 101, 99, 101>> (* "professional+timepiece" *), <<119, 97, 116, 99, 104, 43, 119, 114, 105, 115, 116>> (* "watch+wrist" *), <<101, 108, 101, 103, 97, 110, 116, 43, 119, 97, 116, 99, 104>> (* "elegant+watch" *),
                        <<112, 114, 101, 109, 105, 117, 109, 43, 97, 99, 99, 101, 115, 115, 111, 114, 105, 101, 115>> (* "premium+accessories" *)>>)
  @@ (<<99, 111, 108, 108, 101, 99, 116, 105, 111, 110, 115>> (* "collections" *) :> <<<<115, 101, 105, 107, 111, 43, 112, 114, 111, 115, 112, 101, 120>> (* "seiko+prospex" *), <<115, 101, 105, 107, 111, 43, 112, 114, 101, 115, 97, 103, 101>> (* "seiko+presage" *), <<115, 101, 105, 107, 111, 43, 97, 115, 116, 114, 111, 110>> (* "seiko+astron" *),
                          <<119, 97, 116, 99, 104, 43, 99, 111, 108, 108, 101, 99, 116, 105, 111, 110, 43, 100, 105, 115, 112, 108, 97, 121>> (* "watch+collection+display" *), <<108, 117, 120, 117, 114, 121, 43, 119, 97, 116, 99, 104, 43, 115, 104, 111, 119, 99, 97, 115, 101>> (* "luxury+watch+showcase" *),
                          <<116, 105, 109, 101, 112, 105, 101, 99, 101, 43, 103, 97, 108, 108, 101, 114, 121>> (* "timepiece+gallery" *)>>)
  @@ (<<99, 114, 97, 102, 116, 115, 109, 97, 110, 115, 104, 105, 112>> (* "craftsmanship" *) :> <<<<119, 97, 116, 99, 104, 43, 109, 101, 99, 104, 97, 110, 105, 115, 109>> (* "watch+mechanism" *), <<115, 101, 105, 107, 111, 43, 109, 111, 118, 101, 109, 101, 110, 116>> (* "seiko+movement" *), <<119, 97, 116, 99, 104, 109, 97, 107, 105, 110, 103, 43, 99, 114, 97, 102, 116>> (* "watchmaking+craft" *),
                            <<112, 114, 101, 99, 105, 115, 105, 111, 110, 43, 101, 110, 103, 105, 110, 101, 101, 114, 105, 110, 103>> (* "precision+engineering" *), <<106, 97, 112, 97, 110, 101, 115, 101, 43, 99, 114, 97, 102, 116, 115, 109, 97, 110, 115, 104, 105, 112>> (* "japanese+craftsmanship" *),
                            <<104, 111, 114, 111, 108, 111, 103, 105, 99, 97, 108, 43, 97, 114, 116>> (* "horological+art" *)>>)
  @@ (<<116, 114, 117, 115, 116>> (* "trust" *) :> <<<<108, 117, 120, 117, 114, 121, 43, 115, 101, 114, 118, 105, 99, 101>> (* "luxury+service" *), <<119, 97, 116, 99, 104, 43, 119, 97, 114, 114, 97, 110, 116, 121>> (* "watch+warranty" *), <<112, 114, 101, 109, 105, 117, 109, 43, 115, 117, 112, 112, 111, 114, 116>> (* "premium+support" *),
                    <<112, 114, 111, 102, 101, 115, 115, 105, 111, 110, 97, 108, 43, 99, 111, 110, 115, 117, 108, 116, 97, 116, 105, 111, 110>> (* "professional+consultation" *), <<97, 117, 116, 104, 111, 114, 105, 122, 101, 100, 43, 100, 101, 97, 108, 101, 114>> (* "authorized+dealer" *),
                    <<119, 97, 116, 99, 104, 43, 101, 120, 112, 101, 114, 116, 105, 115, 101>> (* "watch+expertise" *)>>)

FALLBACK_CATEGORIES ==
     (<<104, 101, 114, 111>> (* "hero" *) :> <<<<108, 117, 120, 117, 114, 121>> (* "luxury" *), <<112, 114, 101, 109, 105, 117, 109>> (* "premium" *), <<101, 108, 101, 103, 97, 110, 116>> (* "elegant" *), <<115, 111, 112, 104, 105, 115, 116, 105, 99, 97, 116, 101, 100>> (* "sophisticated" *)>>)
  @@ (<<112, 114, 111, 100, 117, 99, 116, 115>> (* "products" *) :> <<<<112, 114, 111, 100, 117, 99, 116>> (* "product" *), <<100, 101, 116, 97, 105, 108>> (* "detail" *), <<113, 117, 97, 108, 105, 116, 121>> (* "quality" *), <<99, 114, 97, 102, 116, 115, 109, 97, 110, 115, 104, 105, 112>> (* "craftsmanship" *)>>)
  @@ (<<108, 105, 102, 101, 115, 116, 121, 108, 101>> (* "lifestyle" *) :> <<<<108, 105, 102, 101, 115, 116, 121, 108, 101>> (* "lifestyle" *), <<112, 114, 111, 102, 101, 115, 115, 105, 111, 110, 97, 108>> (* "professional" *), <<98, 117, 115, 105, 110, 101, 115, 115>> (* "business" *), <<101, 108, 101, 103, 97, 110, 116>> (* "elegant" *)>>)
  @@ (<<99, 111, 108, 108, 101, 99, 116, 105, 111, 110, 115>> (* "collections" *) :> <<<<99, 111, 108, 108, 101, 99, 116, 105, 111, 110>> (* "collection" *), <<103, 97, 108, 108, 101, 114, 121>> (* "gallery" *), <<115, 104, 111, 119, 99, 97, 115, 101>> (* "showcase" *), <<100, 105, 115, 112, 108, 97, 121>> (* "display" *)>>)
  @@ (<<99, 114, 97, 102, 116, 115, 109, 97, 110, 115, 104, 105, 112>> (* "craftsmanship" *) :> <<<<112, 114, 101, 99, 105, 115, 105, 111, 110>> (* "precision" *), <<101, 110, 103, 105, 110, 101, 101, 114, 105, 110, 103>> (* "engineering" *), <<99, 114, 97, 102, 116>> (* "craft" *), <<97, 114, 116>> (* "art" *)>>)
  @@ (<<116, 114, 117, 115, 116>> (* "trust" *) :> <<<<115, 101, 114, 118, 105, 99, 101>> (* "service" *), <<113, 117, 97, 108, 105, 116, 121>> (* "quality" *), <<112, 114, 111, 102, 101, 115, 115, 105, 111, 110, 97, 108>> (* "professional" *), <<116, 114, 117, 115, 116>> (* "trust" *)>>)

\* the class object: its two tables are ordinary (mutable) dicts
SeikoAssetManager ==
  [SEIKO_WATCH_CATEGORIES |-> SEIKO_WATCH_CATEGORIES,
   FALLBACK_CATEGORIES |-> FALLBACK_CATEGORIES]

\* SeikoAssetManager.__init__
__init__ ==
  [cache_dir |-> <<97, 112, 112, 47, 115, 116, 97, 116, 105, 99, 47, 105, 109, 97, 103, 101, 115, 47, 99, 97, 99, 104, 101>> (* "app/static/images/cache" *),
   base_unsplash_url |-> <<104, 116, 116, 112, 115, 58, 47, 47, 115, 111, 117, 114, 99, 101, 46, 117, 110, 115, 112, 108, 97, 115, 104, 46, 99, 111, 109>> (* "https://source.unsplash.com" *),
   base_picsum_url |-> <<104, 116, 116, 112, 115, 58, 47, 47, 112, 105, 99, 115, 117, 109, 46, 112, 104, 111, 116, 111, 115>> (* "https://picsum.photos" *)]

(***************************************************************************)
(* The composite keys the seeds are derived from                           *)
(***************************************************************************)
\* f"seiko_{section}_{i}"
section_seed_key(section, i) == <<115, 101, 105, 107, 111, 95>> (* "seiko_" *) \o section \o <<95>> (* "_" *) \o str(i)

\* clean_name without the replace(" ", "+")
clean_name_spaces_kept(product_name) == lower(product_name)

clean_name(product_name) == replace(lower(product_name), 32, 43)

\* product_seed_key from the name as passed in: f"{product_name}_{image_type}"
product_seed_key_raw_name(product_name, image_type) ==
  product_name \o <<95>> (* "_" *) \o image_type

\* f"{clean_name}_{image_type}"
product_seed_key(product_name, image_type) ==
  clean_name(product_name) \o <<95>> (* "_" *) \o image_type

\* f"hero_{collection}"
hero_seed_key(collection) == <<104, 101, 114, 111, 95>> (* "hero_" *) \o collection

(***************************************************************************)
(* Inputs                                                                  *)
(***************************************************************************)
MaxSectionCount == 7
MaxNameLen == 1
MaxRequests == 2
MaxThreads == 2
MaxInitCalls == 3
MaxGenerators == 2

Alphabet == {97, 65, 32, 43, 233, 55296}  \* a A space + e-acute U+D800

RECURSIVE StringsUpTo(_)
StringsUpTo(n) ==
  IF n = 0 THEN {<<>>}
  ELSE LET shorter == StringsUpTo(n - 1)
       IN  shorter \cup {Append(s, c) : s \in shorter, c \in Alphabet}

SectionCounts == ((0 - 2)..MaxSectionCount) \cup {20}

ProductNames ==
  {<<83, 101, 105, 107, 111, 32, 80, 114, 111, 115, 112, 101, 120, 32, 83, 111, 108, 97, 114, 32, 68, 105, 118, 101, 114>> (* "Seiko Prospex Solar Diver" *), <<115, 101, 105, 107, 111, 32, 112, 114, 111, 115, 112, 101, 120, 32, 115, 111, 108, 97, 114, 32, 100, 105, 118, 101, 114>> (* "seiko prospex solar diver" *), <<71, 114, 97, 110, 100, 32, 83, 101, 105, 107, 111, 32, 83, 66, 71, 65, 50, 49, 49>> (* "Grand Seiko SBGA211" *),
   <<83, 101, 105, 107, 111, 32, 53, 32, 83, 112, 111, 114, 116, 115>> (* "Seiko 5 Sports" *)} \cup StringsUpTo(MaxNameLen)

ImageTypes == {<<109, 97, 105, 110>> (* "main" *), <<100, 101, 116, 97, 105, 108>> (* "detail" *), <<108, 105, 102, 101, 115, 116, 121, 108, 101>> (* "lifestyle" *), <<112, 97, 110, 111, 114, 97, 109, 97>> (* "panorama" *), <<77, 97, 105, 110>> (* "Main" *), <<>> (* "" *), <<55296>> (* "\uD800" *)}

Collections ==
  {<<108, 117, 120, 117, 114, 121>> (* "luxury" *), <<115, 112, 111, 114, 116>> (* "sport" *), <<100, 114, 101, 115, 115>> (* "dress" *), <<115, 111, 108, 97, 114>> (* "solar" *), <<117, 110, 107, 110, 111, 119, 110, 45, 99, 111, 108, 108, 101, 99, 116, 105, 111, 110>> (* "unknown-collection" *), <<76, 117, 120, 117, 114, 121>> (* "Luxury" *), <<>> (* "" *),
   <<55296>> (* "\uD800" *)}

Urls == {<<104, 116, 116, 112, 115, 58, 47, 47, 112, 105, 99, 115, 117, 109, 46, 112, 104, 111, 116, 111, 115, 47, 56, 48, 48, 47, 56, 48, 48, 63, 114, 97, 110, 100, 111, 109, 61, 53, 52, 52, 56>> (* "https://picsum.photos/800/800?random=5448" *), <<112, 105, 99, 115, 117, 109, 46, 112, 104, 111, 116, 111, 115, 47, 56, 48, 48>> (* "picsum.photos/800" *), <<>> (* "" *)}

(***************************************************************************)
(* Seeds.  The keys the inputs above give rise to are hashed once.         *)
(***************************************************************************)
SeedKeys ==
  LET keys ==
           {section_seed_key(section, i) :
              section \in DOMAIN SEIKO_WATCH_CATEGORIES, i \in 0..MaxSectionCount}
      \cup {product_seed_key(product_name, image_type) :
              product_name \in ProductNames, image_type \in ImageTypes}
      \cup {hero_seed_key(collection) : collection \in Collections}
  IN  {k \in keys : ~encode_raises(k)}

SeedMemo == [k \in SeedKeys |-> md5_seed(k)]

digest_seed(text) == IF text \in SeedKeys THEN SeedMemo[text] ELSE md5_seed(text)

(***************************************************************************)
(* Outcome of a call: a returned value or a raised exception               *)
(***************************************************************************)
Return(v) == [exc |-> "none", value |-> v]
Raise(e) == [exc |-> e, value |-> <<>>]

(***************************************************************************)
(* get_seiko_assets                                                        *)
(***************************************************************************)
\* section_range without the min(): range(section_count)
section_range_untruncated(section_count, keywords) == 0..(section_count - 1)

\* range(min(section_count, len(keywords))), as the indices 0..n-1
section_range(section_count, keywords) == 0..(Min(section_count, Len(keywords)) - 1)

section_keyword(keywords, i) == keywords[(i % Len(keywords)) + 1]

\* section_fallback_keyword with the index clamped to the last fallback
\* instead of wrapped around
section_fallback_keyword_clamped(fallbacks, i) ==
  fallbacks[Min(i, Len(fallbacks) - 1) + 1]

section_fallback_keyword(fallbacks, i) == fallbacks[(i % Len(fallbacks)) + 1]

\* section_image with the fallback URL drawn from the index i instead of the
\* seed
section_image_fallback_by_index(self, cls, section, i) ==
  LET keyword == section_keyword(cls.SEIKO_WATCH_CATEGORIES[section], i)
      fallback_keyword == section_fallback_keyword(cls.FALLBACK_CATEGORIES[section], i)
      seed == digest_seed(section_seed_key(section, i))
  IN  [primary |-> self.base_unsplash_url \o <<47, 49, 50, 48, 48, 120, 56, 48, 48, 47, 63>> (* "/1200x800/?" *) \o quote(keyword)
                     \o <<38, 115, 105, 103, 61>> (* "&sig=" *) \o str(seed),
       secondary |-> self.base_unsplash_url \o <<47, 49, 50, 48, 48, 120, 56, 48, 48, 47, 63>> (* "/1200x800/?" *) \o quote(fallback_keyword)
                     \o <<38, 115, 105, 103, 61>> (* "&sig=" *) \o str(seed),
       fallback |-> self.base_picsum_url \o <<47, 49, 50, 48, 48, 47, 56, 48, 48, 63, 114, 97, 110, 100, 111, 109, 61>> (* "/1200/800?random=" *) \o str(i),
       alt |-> <<80, 114, 111, 102, 101, 115, 115, 105, 111, 110, 97, 108, 32, 83, 101, 105, 107, 111, 32>> (* "Professional Seiko " *) \o replace(keyword, 43, 32) \o <<32, 105, 109, 97, 103, 101, 114, 121>> (* " imagery" *),
       title |-> <<83, 101, 105, 107, 111, 32>> (* "Seiko " *) \o title(section) \o <<32, 45, 32>> (* " - " *) \o title(replace(keyword, 43, 32))]

\* the dict appended to section_images for index i of a section
section_image(self, cls, section, i) ==
  LET keyword == section_keyword(cls.SEIKO_WATCH_CATEGORIES[section], i)
      fallback_keyword == section_fallback_keyword(cls.FALLBACK_CATEGORIES[section], i)
      seed == digest_seed(section_seed_key(section, i))
  IN  [primary |-> self.base_unsplash_url \o <<47, 49, 50, 48, 48, 120, 56, 48, 48, 47, 63>> (* "/1200x800/?" *) \o quote(keyword)
                     \o <<38, 115, 105, 103, 61>> (* "&sig=" *) \o str(seed),
       secondary |-> self.base_unsplash_url \o <<47, 49, 50, 48, 48, 120, 56, 48, 48, 47, 63>> (* "/1200x800/?" *) \o quote(fallback_keyword)
                     \o <<38, 115, 105, 103, 61>> (* "&sig=" *) \o str(seed),
       fallback |-> self.base_picsum_url \o <<47, 49, 50, 48, 48, 47, 56, 48, 48, 63, 114, 97, 110, 100, 111, 109, 61>> (* "/1200/800?random=" *) \o str(seed),
       alt |-> <<80, 114, 111, 102, 101, 115, 115, 105, 111, 110, 97, 108, 32, 83, 101, 105, 107, 111, 32>> (* "Professional Seiko " *) \o replace(keyword, 43, 32) \o <<32, 105, 109, 97, 103, 101, 114, 121>> (* " imagery" *),
       title |-> <<83, 101, 105, 107, 111, 32>> (* "Seiko " *) \o title(section) \o <<32, 45, 32>> (* " - " *) \o title(replace(keyword, 43, 32))]

section_image_raises(cls, section, i) ==
  \/ encode_raises(section_seed_key(section, i))
  \/ quote_raises(section_keyword(cls.SEIKO_WATCH_CATEGORIES[section], i))
  \/ quote_raises(section_fallback_keyword(cls.FALLBACK_CATEGORIES[section], i))

\* get_seiko_assets with each section's records in reverse order
\* (section_images.insert(0, ...) in place of append)
get_seiko_assets_reversed(self, cls, section_count) ==
  IF \E section \in DOMAIN cls.SEIKO_WATCH_CATEGORIES :
       \E i \in section_range(section_count, cls.SEIKO_WATCH_CATEGORIES[section]) :
         section_image_raises(cls, section, i)
  THEN Raise("UnicodeEncodeError")
  ELSE Return([section \in DOMAIN cls.SEIKO_WATCH_CATEGORIES |->
         LET keywords == cls.SEIKO_WATCH_CATEGORIES[section]
             n == Cardinality(section_range(section_count, keywords))
         IN  [k \in 1..n |-> section_image(self, cls, section, n - k)]])

get_seiko_assets(self, cls, section_count) ==
  IF \E section \in DOMAIN cls.SEIKO_WATCH_CATEGORIES :
       \E i \in section_range(section_count, cls.SEIKO_WATCH_CATEGORIES[section]) :
         section_image_raises(cls, section, i)
  THEN Raise("UnicodeEncodeError")
  ELSE Return([section \in DOMAIN cls.SEIKO_WATCH_CATEGORIES |->
         LET keywords == cls.SEIKO_WATCH_CATEGORIES[section]
             n == Cardinality(section_range(section_count, keywords))
         IN  [k \in 1..n |-> section_image(self, cls, section, k - 1)]])

(***************************************************************************)
(* get_product_image                                                       *)
(***************************************************************************)
\* product_search_terms with the two terms of "detail" in the other order
product_search_terms_detail_swapped(product_name, image_type) ==
  CASE image_type = <<109, 97, 105, 110>> (* "main" *) ->
         <<<<115, 101, 105, 107, 111, 43>> (* "seiko+" *) \o clean_name(product_name), clean_name(product_name) \o <<43, 119, 97, 116, 99, 104>> (* "+watch" *),
           <<108, 117, 120, 117, 114, 121, 43, 119, 97, 116, 99, 104>> (* "luxury+watch" *)>>
    [] image_type = <<100, 101, 116, 97, 105, 108>> (* "detail" *) ->
         <<<<119, 97, 116, 99, 104, 43, 109, 101, 99, 104, 97, 110, 105, 115, 109>> (* "watch+mechanism" *), clean_name(product_name) \o <<43, 100, 101, 116, 97, 105, 108>> (* "+detail" *), <<119, 97, 116, 99, 104, 43, 102, 97, 99, 101>> (* "watch+face" *)>>
    [] image_type = <<108, 105, 102, 101, 115, 116, 121, 108, 101>> (* "lifestyle" *) ->
         <<clean_name(product_name) \o <<43, 108, 105, 102, 101, 115, 116, 121, 108, 101>> (* "+lifestyle" *), <<119, 97, 116, 99, 104, 43, 119, 114, 105, 115, 116>> (* "watch+wrist" *), <<108, 117, 120, 117, 114, 121, 43, 108, 105, 102, 101, 115, 116, 121, 108, 101>> (* "luxury+lifestyle" *)>>
    [] OTHER -> <<<<115, 101, 105, 107, 111, 43, 119, 97, 116, 99, 104>> (* "seiko+watch" *), <<108, 117, 120, 117, 114, 121, 43, 116, 105, 109, 101, 112, 105, 101, 99, 101>> (* "luxury+timepiece" *)>>

product_search_terms(product_name, image_type) ==
  CASE image_type = <<109, 97, 105, 110>> (* "main" *) ->
         <<<<115, 101, 105, 107, 111, 43>> (* "seiko+" *) \o clean_name(product_name), clean_name(product_name) \o <<43, 119, 97, 116, 99, 104>> (* "+watch" *),
           <<108, 117, 120, 117, 114, 121, 43, 119, 97, 116, 99, 104>> (* "luxury+watch" *)>>
    [] image_type = <<100, 101, 116, 97, 105, 108>> (* "detail" *) ->
         <<clean_name(product_name) \o <<43, 100, 101, 116, 97, 105, 108>> (* "+detail" *), <<119, 97, 116, 99, 104, 43, 109, 101, 99, 104, 97, 110, 105, 115, 109>> (* "watch+mechanism" *), <<119, 97, 116, 99, 104, 43, 102, 97, 99, 101>> (* "watch+face" *)>>
    [] image_type = <<108, 105, 102, 101, 115, 116, 121, 108, 101>> (* "lifestyle" *) ->
         <<clean_name(product_name) \o <<43, 108, 105, 102, 101, 115, 116, 121, 108, 101>> (* "+lifestyle" *), <<119, 97, 116, 99, 104, 43, 119, 114, 105, 115, 116>> (* "watch+wrist" *), <<108, 117, 120, 117, 114, 121, 43, 108, 105, 102, 101, 115, 116, 121, 108, 101>> (* "luxury+lifestyle" *)>>
    [] OTHER -> <<<<115, 101, 105, 107, 111, 43, 119, 97, 116, 99, 104>> (* "seiko+watch" *), <<108, 117, 120, 117, 114, 121, 43, 116, 105, 109, 101, 112, 105, 101, 99, 101>> (* "luxury+timepiece" *)>>

get_product_image(self, product_name, image_type) ==
  LET search_terms == product_search_terms(product_name, image_type)
      seed == digest_seed(product_seed_key(product_name, image_type))
  IN  IF \/ encode_raises(product_seed_key(product_name, image_type))
         \/ quote_raises(search_terms[1])
         \/ quote_raises(search_terms[2])
      THEN Raise("UnicodeEncodeError")
      ELSE Return(
        [primary |-> self.base_unsplash_url \o <<47, 56, 48, 48, 120, 56, 48, 48, 47, 63>> (* "/800x800/?" *) \o quote(search_terms[1])
                       \o <<38, 115, 105, 103, 61>> (* "&sig=" *) \o str(seed),
         secondary |-> self.base_unsplash_url \o <<47, 56, 48, 48, 120, 56, 48, 48, 47, 63>> (* "/800x800/?" *) \o quote(search_terms[2])
                       \o <<38, 115, 105, 103, 61>> (* "&sig=" *) \o str(seed),
         fallback |-> self.base_picsum_url \o <<47, 56, 48, 48, 47, 56, 48, 48, 63, 114, 97, 110, 100, 111, 109, 61>> (* "/800/800?random=" *) \o str(seed),
         alt |-> product_name \o <<32, 45, 32, 80, 114, 111, 102, 101, 115, 115, 105, 111, 110, 97, 108, 32, 119, 97, 116, 99, 104, 32, 112, 104, 111, 116, 111, 103, 114, 97, 112, 104, 121>> (* " - Professional watch photography" *),
         title |-> product_name])

(***************************************************************************)
(* get_hero_banner                                                         *)
(***************************************************************************)
hero_search_terms ==
     (<<108, 117, 120, 117, 114, 121>> (* "luxury" *) :> <<115, 101, 105, 107, 111, 43, 108, 117, 120, 117, 114, 121, 43, 119, 97, 116, 99, 104, 43, 99, 111, 108, 108, 101, 99, 116, 105, 111, 110>> (* "seiko+luxury+watch+collection" *))
  @@ (<<115, 112, 111, 114, 116>> (* "sport" *) :> <<115, 101, 105, 107, 111, 43, 112, 114, 111, 115, 112, 101, 120, 43, 115, 112, 111, 114, 116, 43, 119, 97, 116, 99, 104>> (* "seiko+prospex+sport+watch" *))
  @@ (<<100, 114, 101, 115, 115>> (* "dress" *) :> <<115, 101, 105, 107, 111, 43, 112, 114, 101, 115, 97, 103, 101, 43, 100, 114, 101, 115, 115, 43, 119, 97, 116, 99, 104>> (* "seiko+presage+dress+watch" *))
  @@ (<<115, 111, 108, 97, 114>> (* "solar" *) :> <<115, 101, 105, 107, 111, 43, 97, 115, 116, 114, 111, 110, 43, 115, 111, 108, 97, 114, 43, 119, 97, 116, 99, 104>> (* "seiko+astron+solar+watch" *))

\* search_terms.get(collection, "seiko+watch+luxury")
hero_search_term(collection) ==
  IF collection \in DOMAIN hero_search_terms THEN hero_search_terms[collection]
  ELSE <<115, 101, 105, 107, 111, 43, 119, 97, 116, 99, 104, 43, 108, 117, 120, 117, 114, 121>> (* "seiko+watch+luxury" *)

\* get_hero_banner with the secondary URL searching for the collection's own
\* phrase
get_hero_banner_secondary_by_collection(self, collection) ==
  LET seed == digest_seed(hero_seed_key(collection))
      search_term == hero_search_term(collection)
  IN  IF encode_raises(hero_seed_key(collection)) \/ quote_raises(search_term)
      THEN Raise("UnicodeEncodeError")
      ELSE Return(
        [primary |-> self.base_unsplash_url \o <<47, 49, 57, 50, 48, 120, 54, 48, 48, 47, 63>> (* "/1920x600/?" *) \o quote(search_term)
                       \o <<38, 115, 105, 103, 61>> (* "&sig=" *) \o str(seed),
         secondary |-> self.base_unsplash_url \o <<47, 49, 57, 50, 48, 120, 54, 48, 48, 47, 63>> (* "/1920x600/?" *) \o quote(search_term)
                       \o <<38, 115, 105, 103, 61>> (* "&sig=" *) \o str(seed),
         fallback |-> self.base_picsum_url \o <<47, 49, 57, 50, 48, 47, 54, 48, 48, 63, 114, 97, 110, 100, 111, 109, 61>> (* "/1920/600?random=" *) \o str(seed),
         alt |-> <<83, 101, 105, 107, 111, 32>> (* "Seiko " *) \o title(collection) \o <<32, 67, 111, 108, 108, 101, 99, 116, 105, 111, 110, 32, 45, 32, 80, 114, 101, 109, 105, 117, 109, 32, 116, 105, 109, 101, 112, 105, 101, 99, 101, 115>> (* " Collection - Premium timepieces" *),
         title |-> <<83, 101, 105, 107, 111, 32>> (* "Seiko " *) \o title(collection) \o <<32, 67, 111, 108, 108, 101, 99, 116, 105, 111, 110>> (* " Collection" *)])

get_hero_banner(self, collection) ==
  LET seed == digest_seed(hero_seed_key(collection))
      search_term == hero_search_term(collection)
  IN  IF encode_raises(hero_seed_key(collection)) \/ quote_raises(search_term)
      THEN Raise("UnicodeEncodeError")
      ELSE Return(
        [primary |-> self.base_unsplash_url \o <<47, 49, 57, 50, 48, 120, 54, 48, 48, 47, 63>> (* "/1920x600/?" *) \o quote(search_term)
                       \o <<38, 115, 105, 103, 61>> (* "&sig=" *) \o str(seed),
         secondary |-> self.base_unsplash_url \o <<47, 49, 57, 50, 48, 120, 54, 48, 48, 47, 63, 108, 117, 120, 117, 114, 121, 43, 116, 105, 109, 101, 112, 105, 101, 99, 101, 38, 115, 105, 103, 61>> (* "/1920x600/?luxury+timepiece&sig=" *)
                       \o str(seed),
         fallback |-> self.base_picsum_url \o <<47, 49, 57, 50, 48, 47, 54, 48, 48, 63, 114, 97, 110, 100, 111, 109, 61>> (* "/1920/600?random=" *) \o str(seed),
         alt |-> <<83, 101, 105, 107, 111, 32>> (* "Seiko " *) \o title(collection) \o <<32, 67, 111, 108, 108, 101, 99, 116, 105, 111, 110, 32, 45, 32, 80, 114, 101, 109, 105, 117, 109, 32, 116, 105, 109, 101, 112, 105, 101, 99, 101, 115>> (* " Collection - Premium timepieces" *),
         title |-> <<83, 101, 105, 107, 111, 32>> (* "Seiko " *) \o title(collection) \o <<32, 67, 111, 108, 108, 101, 99, 116, 105, 111, 110>> (* " Collection" *)])

(***************************************************************************)
(* validate_image_url                                                      *)
(***************************************************************************)
IsPrefix(p, s) == Len(p) <= Len(s) /\ SubSeq(s, 1, Len(p)) = p

\* requests rejects a URL without an http(s) scheme and host before it sends
\* anything (MissingSchema / InvalidSchema / InvalidURL)
sendable(url) ==
  \/ IsPrefix(<<104, 116, 116, 112, 58, 47, 47>> (* "http://" *), url) /\ Len(url) > Len(<<104, 116, 116, 112, 58, 47, 47>> (* "http://" *))
  \/ IsPrefix(<<104, 116, 116, 112, 115, 58, 47, 47>> (* "https://" *), url) /\ Len(url) > Len(<<104, 116, 116, 112, 115, 58, 47, 47>> (* "https://" *))

NoOutcome == [kind |-> "none", status_code |-> 0, exc |-> "none"]
Response(code) == [kind |-> "response", status_code |-> code, exc |-> "none"]
Raised(e) == [kind |-> "exception", status_code |-> 0, exc |-> e]

StatusCodes == {200, 201, 204, 301, 304, 404, 500, 503}

\* what requests.head(url, timeout=5) can do: HEAD does not follow redirects, so
\* one request goes out and its status comes back, or the request fails
HeadOutcomes(url) ==
  IF sendable(url)
  THEN {Response(code) : code \in StatusCodes}
         \cup {Raised(e) : e \in {"Timeout", "ConnectionError", "KeyboardInterrupt"}}
  ELSE {Raised("MissingSchema")}

\* validate_image_url with "except Exception:" in place of the bare "except:"
validate_image_url_except_exception(outcome) ==
  CASE outcome.kind = "response" -> Return(outcome.status_code = 200)
    [] outcome.exc = "KeyboardInterrupt" -> Raise(outcome.exc)
    [] OTHER -> Return(FALSE)

\* try: return response.status_code == 200 / except: return False
validate_image_url(outcome) ==
  IF outcome.kind = "response" THEN Return(outcome.status_code = 200)
  ELSE Return(FALSE)

(***************************************************************************)
(* State                                                                   *)
(***************************************************************************)
VARIABLES
  asset_manager,   \* the fields of the one SeikoAssetManager (app/main.py)
  class_attrs,     \* the class attributes of SeikoAssetManager
  call,            \* the last call made on asset_manager
  ret,             \* how that call ended
  head_requests,   \* number of HEAD requests sent so far
  threads,         \* the calls in progress on asset_manager, one per thread
  database,        \* the committed rows of the store's tables (app/core/database.py)
  init_db,         \* the init_database call in progress, if any
  init_calls,      \* how many init_database calls have returned, and raised
  open_sessions,   \* the owners of the sessions opened and not yet closed
  generators       \* the get_db_session generators and where each stands

asset_vars == <<asset_manager, class_attrs, call, ret, head_requests, threads>>

database_vars == <<database, init_db, init_calls, open_sessions, generators>>

vars == <<asset_manager, class_attrs, call, ret, head_requests, threads,
          database, init_db, init_calls, open_sessions, generators>>

\* a thread that is not inside a method of asset_manager
IdleThread == [pc |-> "idle", op |-> "none", args |-> <<>>, assets |-> <<>>, ret |-> Return(<<>>)]

Threads == 1..MaxThreads

\* the tables create_sample_data fills, each as the set of its rows' unique keys
EmptyDatabase == [categories |-> {}, products |-> {}, users |-> {}]

\* no init_database call in progress
IdleInit == [pc |-> "idle", pending |-> EmptyDatabase, exc |-> "none"]

Generators == 1..MaxGenerators

Call(op, args, outcome) == [op |-> op, args |-> args, outcome |-> outcome]

Init ==
  /\ asset_manager = __init__
  /\ class_attrs = SeikoAssetManager
  /\ call = Call("none", <<>>, NoOutcome)
  /\ ret = Return(<<>>)
  /\ head_requests = 0
  /\ threads = [t \in Threads |-> IdleThread]
  /\ database = EmptyDatabase
  /\ init_db = IdleInit
  /\ init_calls = [returned |-> 0, raised |-> 0]
  /\ open_sessions = {}
  /\ generators = [g \in Generators |-> "none"]

\* GetSeikoAssets consuming the class's keyword lists: each call moves the
\* first keyword of every section to the end
GetSeikoAssets_rotating_keywords(section_count) ==
  /\ call' = Call("get_seiko_assets", <<section_count>>, NoOutcome)
  /\ ret' = get_seiko_assets(asset_manager, class_attrs, section_count)
  /\ class_attrs' =
       [class_attrs EXCEPT !.SEIKO_WATCH_CATEGORIES =
          [section \in DOMAIN @ |-> Tail(@[section]) \o <<Head(@[section])>>]]
  /\ UNCHANGED <<asset_manager, head_requests, threads, database_vars>>

GetSeikoAssets(section_count) ==
  /\ call' = Call("get_seiko_assets", <<section_count>>, NoOutcome)
  /\ ret' = get_seiko_assets(asset_manager, class_attrs, section_count)
  /\ UNCHANGED <<asset_manager, class_attrs, head_requests, threads, database_vars>>

GetProductImage(product_name, image_type) ==
  /\ call' = Call("get_product_image", <<product_name, image_type>>, NoOutcome)
  /\ ret' = get_product_image(asset_manager, product_name, image_type)
  /\ UNCHANGED <<asset_manager, class_attrs, head_requests, threads, database_vars>>

\* GetHeroBanner probing the primary URL with a HEAD request before it
\* returns the record
GetHeroBanner_probing(collection) ==
  /\ head_requests < MaxRequests
  /\ call' = Call("get_hero_banner", <<collection>>, NoOutcome)
  /\ ret' = get_hero_banner(asset_manager, collection)
  /\ head_requests' = head_requests + 1
  /\ UNCHANGED <<asset_manager, class_attrs, threads, database_vars>>

GetHeroBanner(collection) ==
  /\ call' = Call("get_hero_banner", <<collection>>, NoOutcome)
  /\ ret' = get_hero_banner(asset_manager, collection)
  /\ UNCHANGED <<asset_manager, class_attrs, head_requests, threads, database_vars>>

ValidateImageUrl(url, outcome) ==
  /\ head_requests < MaxRequests
  /\ call' = Call("validate_image_url", <<url>>, outcome)
  /\ ret' = validate_image_url(outcome)
  /\ head_requests' = head_requests + (IF sendable(url) THEN 1 ELSE 0)
  /\ UNCHANGED <<asset_manager, class_attrs, threads, database_vars>>

Next ==
  \/ \E section_count \in SectionCounts : GetSeikoAssets(section_count)
  \/ \E product_name \in ProductNames, image_type \in ImageTypes :
       GetProductImage(product_name, image_type)
  \/ \E collection \in Collections : GetHeroBanner(collection)
  \/ \E url \in Urls : \E outcome \in HeadOutcomes(url) : ValidateImageUrl(url, outcome)

Spec == Init /\ [][Next]_vars

(***************************************************************************)
(* Concurrent calls on the one shared asset_manager                        *)
(*                                                                         *)
(* A thread inside a method keeps its arguments and its local variables;   *)
(* the instance fields and the class tables are read where the code reads  *)
(* them.  get_seiko_assets reads the tables once per section of its outer  *)
(* loop; get_product_image and get_hero_banner read the base URLs when     *)
(* they build the record they return.                                      *)
(***************************************************************************)
\* the keys of SEIKO_WATCH_CATEGORIES in the order .items() yields them
SectionOrder == <<<<104, 101, 114, 111>> (* "hero" *), <<112, 114, 111, 100, 117, 99, 116, 115>> (* "products" *), <<108, 105, 102, 101, 115, 116, 121, 108, 101>> (* "lifestyle" *), <<99, 111, 108, 108, 101, 99, 116, 105, 111, 110, 115>> (* "collections" *), <<99, 114, 97, 102, 116, 115, 109, 97, 110, 115, 104, 105, 112>> (* "craftsmanship" *), <<116, 114, 117, 115, 116>> (* "trust" *)>>

\* section_images after the inner loop for one section
section_images(self, cls, section, section_count) ==
  LET n == Cardinality(section_range(section_count, cls.SEIKO_WATCH_CATEGORIES[section]))
  IN  [k \in 1..n |-> section_image(self, cls, section, k - 1)]

ConcurrentSectionCounts == {1, MaxSectionCount}

ConcurrentProductCalls == {<<<<83, 101, 105, 107, 111, 32, 53, 32, 83, 112, 111, 114, 116, 115>> (* "Seiko 5 Sports" *), <<109, 97, 105, 110>> (* "main" *)>>, <<<<55296>> (* "\uD800" *), <<100, 101, 116, 97, 105, 108>> (* "detail" *)>>}

ConcurrentCollections == {<<115, 112, 111, 114, 116>> (* "sport" *)}

CanCall(t) == threads[t].pc \in {"idle", "done"}

\* the frame of a call that has just been entered
Entered(op, args) ==
  [pc |-> "running", op |-> op, args |-> args, assets |-> <<>>, ret |-> Return(<<>>)]

\* a thread enters get_seiko_assets: assets = {}
ThreadGetSeikoAssets(t, section_count) ==
  /\ CanCall(t)
  /\ threads' = [threads EXCEPT ![t] = Entered("get_seiko_assets", <<section_count>>)]
  /\ UNCHANGED <<asset_manager, class_attrs, call, ret, head_requests, database_vars>>

\* a thread enters get_product_image
ThreadGetProductImage(t, product_name, image_type) ==
  /\ CanCall(t)
  /\ threads' = [threads EXCEPT ![t] =
       Entered("get_product_image", <<product_name, image_type>>)]
  /\ UNCHANGED <<asset_manager, class_attrs, call, ret, head_requests, database_vars>>

\* a thread enters get_hero_banner
ThreadGetHeroBanner(t, collection) ==
  /\ CanCall(t)
  /\ threads' = [threads EXCEPT ![t] = Entered("get_hero_banner", <<collection>>)]
  /\ UNCHANGED <<asset_manager, class_attrs, call, ret, head_requests, database_vars>>

\* ThreadSection taking each keyword off the class's list as it uses it:
\* the section's keywords are left rotated by the number of records built
ThreadSection_consuming_keywords(t) ==
  LET self == threads[t]
      section == SectionOrder[Len(self.assets) + 1]
      keywords == class_attrs.SEIKO_WATCH_CATEGORIES[section]
  IN  /\ self.pc = "running"
      /\ self.op = "get_seiko_assets"
      /\ Len(self.assets) < Len(SectionOrder)
      /\ threads' = [threads EXCEPT ![t] =
           [self EXCEPT !.assets =
              Append(@, section_images(asset_manager, class_attrs, section, self.args[1]))]]
      /\ class_attrs' = [class_attrs EXCEPT !.SEIKO_WATCH_CATEGORIES[section] =
           IF self.args[1] >= 1 THEN Tail(keywords) \o <<Head(keywords)>> ELSE keywords]
      /\ UNCHANGED <<asset_manager, call, ret, head_requests, database_vars>>

\* one pass of the outer loop of get_seiko_assets: assets[section] = section_images
ThreadSection(t) ==
  LET self == threads[t]
      section == SectionOrder[Len(self.assets) + 1]
  IN  /\ self.pc = "running"
      /\ self.op = "get_seiko_assets"
      /\ Len(self.assets) < Len(SectionOrder)
      /\ threads' = [threads EXCEPT ![t] =
           IF \E i \in section_range(self.args[1], class_attrs.SEIKO_WATCH_CATEGORIES[section]) :
                section_image_raises(class_attrs, section, i)
           THEN [self EXCEPT !.pc = "done", !.ret = Raise("UnicodeEncodeError")]
           ELSE [self EXCEPT !.assets =
                   Append(@, section_images(asset_manager, class_attrs, section, self.args[1]))]]
      /\ UNCHANGED <<asset_manager, class_attrs, call, ret, head_requests, database_vars>>

\* the return statement of the method the thread is in
ThreadReturn(t) ==
  LET self == threads[t]
  IN  /\ self.pc = "running"
      /\ self.op = "get_seiko_assets" => Len(self.assets) = Len(SectionOrder)
      /\ threads' = [threads EXCEPT ![t] = [self EXCEPT
           !.pc = "done",
           !.ret = CASE self.op = "get_seiko_assets" ->
                         Return([section \in {SectionOrder[k] : k \in DOMAIN SectionOrder} |->
                                   self.assets[CHOOSE k \in DOMAIN SectionOrder :
                                                 SectionOrder[k] = section]])
                     [] self.op = "get_product_image" ->
                         get_product_image(asset_manager, self.args[1], self.args[2])
                     [] self.op = "get_hero_banner" ->
                         get_hero_banner(asset_manager, self.args[1])]]
      /\ UNCHANGED <<asset_manager, class_attrs, call, ret, head_requests, database_vars>>

NextConcurrent ==
  \/ \E t \in Threads, section_count \in ConcurrentSectionCounts :
       ThreadGetSeikoAssets(t, section_count)
  \/ \E t \in Threads, c \in ConcurrentProductCalls : ThreadGetProductImage(t, c[1], c[2])
  \/ \E t \in Threads, collection \in ConcurrentCollections : ThreadGetHeroBanner(t, collection)
  \/ \E t \in Threads : ThreadSection(t)
  \/ \E t \in Threads : ThreadReturn(t)

SpecConcurrent == Init /\ [][NextConcurrent]_vars

\* ---------------------------------------------------------------------------
\* The store's database (app/core/database.py): init_database, create_sample_data
\* and get_db_session.  A table is the set of its rows' unique keys: the name of
\* a Category, the model_number of a Product, the username of a User.
\* ---------------------------------------------------------------------------

\* the list categories of create_sample_data, by Category.name
categories == {"Prospex", "Presage", "Astron", "5 Sports"}

\* the list products of create_sample_data, by Product.model_number
products == {"SNE497", "SSK001", "SRPB41", "SPB221", "SSE167", "SRPD55", "SRPD79"}

\* admin_user and demo_user of create_sample_data, by User.username
sample_users == {"admin", "demo"}

\* the owner of the session init_database opens, and of the one generator g opens
InitSession == <<"init_database", 0>>

GeneratorSession(g) == <<"get_db_session", g>>

\* the check of init_database left out: create_sample_data on every call
sample_data_missing_unchecked(db) == TRUE

\* db.query(Category).count() == 0
sample_data_missing(db) == db.categories = {}

\* the unique columns: a pending row whose key is already in its table cannot be inserted
violates_unique(db, pending) ==
  \/ db.categories \cap pending.categories # {}
  \/ db.products \cap pending.products # {}
  \/ db.users \cap pending.users # {}

\* db.commit() when it succeeds: the pending rows join their tables
commit(db, pending) ==
  [categories |-> db.categories \cup pending.categories,
   products   |-> db.products \cup pending.products,
   users      |-> db.users \cup pending.users]

\* the outcomes of a step that reaches outside the process
Outcomes == {"ok", "error"}

\* a statement inside the inner try of init_database raises: control goes to its finally
InitRaises(exc) == [init_db EXCEPT !.pc = "finally", !.exc = exc]

\* init_database is called; calls follow one another, as in main.py
InitDatabase ==
  /\ init_db.pc = "idle"
  /\ init_calls.returned + init_calls.raised < MaxInitCalls
  /\ init_db' = [init_db EXCEPT !.pc = "create_all"]
  /\ UNCHANGED <<asset_vars, database, init_calls, open_sessions, generators>>

\* Base.metadata.create_all(bind=engine), outside the inner try
CreateAll(outcome) ==
  /\ init_db.pc = "create_all"
  /\ init_db' = IF outcome = "ok"
                THEN [init_db EXCEPT !.pc = "session"]
                ELSE [init_db EXCEPT !.pc = "except", !.exc = "OperationalError"]
  /\ UNCHANGED <<asset_vars, database, init_calls, open_sessions, generators>>

\* db = SessionLocal() in init_database
OpenSession ==
  /\ init_db.pc = "session"
  /\ open_sessions' = open_sessions \cup {InitSession}
  /\ init_db' = [init_db EXCEPT !.pc = "query"]
  /\ UNCHANGED <<asset_vars, database, init_calls, generators>>

\* if db.query(Category).count() == 0: create_sample_data(db), else only a log line
QueryCount(outcome) ==
  /\ init_db.pc = "query"
  /\ init_db' = IF outcome = "error" THEN InitRaises("OperationalError")
                ELSE IF sample_data_missing(database)
                     THEN [init_db EXCEPT !.pc = "add_categories"]
                     ELSE [init_db EXCEPT !.pc = "finally"]
  /\ UNCHANGED <<asset_vars, database, init_calls, open_sessions, generators>>

\* create_sample_data: for category in categories: db.add(category)
AddCategories ==
  /\ init_db.pc = "add_categories"
  /\ init_db' = [init_db EXCEPT !.pc = "commit_categories",
                                !.pending.categories = @ \cup categories]
  /\ UNCHANGED <<asset_vars, database, init_calls, open_sessions, generators>>

\* create_sample_data: the first db.commit()
CommitCategories(outcome) ==
  /\ init_db.pc = "commit_categories"
  /\ IF outcome = "ok" /\ ~violates_unique(database, init_db.pending)
     THEN /\ database' = commit(database, init_db.pending)
          /\ init_db' = [init_db EXCEPT !.pc = "add_products", !.pending = EmptyDatabase]
     ELSE /\ database' = database
          /\ init_db' = InitRaises(IF outcome = "ok" THEN "IntegrityError"
                                                     ELSE "OperationalError")
  /\ UNCHANGED <<asset_vars, init_calls, open_sessions, generators>>

\* create_sample_data: for product in products: db.add(product)
AddProducts ==
  /\ init_db.pc = "add_products"
  /\ init_db' = [init_db EXCEPT !.pc = "create_users",
                                !.pending.products = @ \cup products]
  /\ UNCHANGED <<asset_vars, database, init_calls, open_sessions, generators>>

\* create_sample_data: import AuthService, hash the two passwords, db.add both users
CreateUsers(outcome) ==
  /\ init_db.pc = "create_users"
  /\ init_db' = IF outcome = "ok"
                THEN [init_db EXCEPT !.pc = "commit", !.pending.users = @ \cup sample_users]
                ELSE InitRaises("ImportError")
  /\ UNCHANGED <<asset_vars, database, init_calls, open_sessions, generators>>

\* create_sample_data: the second db.commit()
CommitAll(outcome) ==
  /\ init_db.pc = "commit"
  /\ IF outcome = "ok" /\ ~violates_unique(database, init_db.pending)
     THEN /\ database' = commit(database, init_db.pending)
          /\ init_db' = [init_db EXCEPT !.pc = "finally", !.pending = EmptyDatabase]
     ELSE /\ database' = database
          /\ init_db' = InitRaises(IF outcome = "ok" THEN "IntegrityError"
                                                     ELSE "OperationalError")
  /\ UNCHANGED <<asset_vars, init_calls, open_sessions, generators>>

\* finally: db.close() in init_database; rows added and not committed are dropped,
\* then the call returns, or what was raised goes on to the except clause
InitFinally ==
  /\ init_db.pc = "finally"
  /\ open_sessions' = open_sessions \ {InitSession}
  /\ IF init_db.exc = "none"
     THEN /\ init_db' = IdleInit
          /\ init_calls' = [init_calls EXCEPT !.returned = @ + 1]
     ELSE /\ init_db' = [init_db EXCEPT !.pc = "except", !.pending = EmptyDatabase]
          /\ init_calls' = init_calls
  /\ UNCHANGED <<asset_vars, database, generators>>

\* except Exception as e: app_logger.error(...); raise
InitExcept ==
  /\ init_db.pc = "except"
  /\ init_db' = IdleInit
  /\ init_calls' = [init_calls EXCEPT !.raised = @ + 1]
  /\ UNCHANGED <<asset_vars, database, open_sessions, generators>>

\* get_db_session() is called: a generator is made and none of its body has run
GetDbSession(g) ==
  /\ generators[g] \in {"none", "exhausted", "raised", "closed"}
  /\ generators' = [generators EXCEPT ![g] = "created"]
  /\ UNCHANGED <<asset_vars, database, init_db, init_calls, open_sessions>>

\* the first next(): db = SessionLocal(), then yield db hands the session to the consumer
GeneratorNext(g) ==
  /\ generators[g] = "created"
  /\ generators' = [generators EXCEPT ![g] = "suspended"]
  /\ open_sessions' = open_sessions \cup {GeneratorSession(g)}
  /\ UNCHANGED <<asset_vars, database, init_db, init_calls>>

\* the consumer completes and resumes the generator: finally: db.close(), StopIteration
ConsumerCompletes(g) ==
  /\ generators[g] = "suspended"
  /\ generators' = [generators EXCEPT ![g] = "exhausted"]
  /\ open_sessions' = open_sessions \ {GeneratorSession(g)}
  /\ UNCHANGED <<asset_vars, database, init_db, init_calls>>

\* get_db_session without its try/finally: an exception thrown in at the yield
\* leaves the generator before db.close()
ConsumerRaises_without_finally(g) ==
  /\ generators[g] = "suspended"
  /\ generators' = [generators EXCEPT ![g] = "raised"]
  /\ UNCHANGED <<asset_vars, database, init_db, init_calls, open_sessions>>

\* the consumer raises and its exception is thrown in at the yield:
\* finally: db.close(), and the exception goes on
ConsumerRaises(g) ==
  /\ generators[g] = "suspended"
  /\ generators' = [generators EXCEPT ![g] = "raised"]
  /\ open_sessions' = open_sessions \ {GeneratorSession(g)}
  /\ UNCHANGED <<asset_vars, database, init_db, init_calls>>

\* the generator is closed or dropped: GeneratorExit at the yield runs finally: db.close();
\* a generator that never started has no session to close
GeneratorClose(g) ==
  /\ generators[g] \in {"created", "suspended"}
  /\ generators' = [generators EXCEPT ![g] = "closed"]
  /\ open_sessions' = open_sessions \ {GeneratorSession(g)}
  /\ UNCHANGED <<asset_vars, database, init_db, init_calls>>

NextDatabase ==
  \/ InitDatabase
  \/ \E outcome \in Outcomes : CreateAll(outcome)
  \/ OpenSession
  \/ \E outcome \in Outcomes : QueryCount(outcome)
  \/ AddCategories
  \/ \E outcome \in Outcomes : CommitCategories(outcome)
  \/ AddProducts
  \/ \E outcome \in Outcomes : CreateUsers(outcome)
  \/ \E outcome \in Outcomes : CommitAll(outcome)
  \/ InitFinally
  \/ InitExcept
  \/ \E g \in Generators : GetDbSession(g)
  \/ \E g \in Generators : GeneratorNext(g)
  \/ \E g \in Generators : ConsumerCompletes(g)
  \/ \E g \in Generators : ConsumerRaises(g)
  \/ \E g \in Generators : GeneratorClose(g)

SpecDatabase == Init /\ [][NextDatabase]_vars

(***************************************************************************)
(* Vocabulary of the properties: reading a returned record back            *)
(***************************************************************************)
Max(a, b) == IF a > b THEN a ELSE b

ConstructionOps == {"get_seiko_assets", "get_product_image", "get_hero_banner"}

RecordFields == {"primary", "secondary", "fallback", "alt", "title"}

KnownImageTypes == {<<109, 97, 105, 110>> (* "main" *), <<100, 101, 116, 97, 105, 108>> (* "detail" *), <<108, 105, 102, 101, 115, 116, 121, 108, 101>> (* "lifestyle" *)}

\* the last call was operation op and it returned (did not raise)
Returned(op) == call.op = op /\ ret.exc = "none"

\* the records a returned construction call handed back
Records ==
  IF call.op = "get_seiko_assets"
  THEN UNION {{ret.value[section][k] : k \in DOMAIN ret.value[section]} :
                section \in DOMAIN ret.value}
  ELSE {ret.value}

\* position of the first c in s, 0 when there is none
IndexOf(s, c) ==
  IF \E i \in 1..Len(s) : s[i] = c
  THEN CHOOSE i \in 1..Len(s) : s[i] = c /\ \A j \in 1..(i - 1) : s[j] # c
  ELSE 0

Contains(s, sub) == \E i \in 1..(Len(s) - Len(sub) + 1) : SubSeq(s, i, i + Len(sub) - 1) = sub

\* the search text of a URL: what stands between its "?" and its "&"
query_term(url) == SubSeq(url, IndexOf(url, 63) + 1, IndexOf(url, 38) - 1)

\* the seed parameter of a URL: what follows its "="
seed_text(url) == SubSeq(url, IndexOf(url, 61) + 1, Len(url))

\* a URL up to and including its "=": all of it but the seed parameter
without_seed(url) == SubSeq(url, 1, IndexOf(url, 61))

\* s is the decimal numeral of a natural number
IsNumeral(s) ==
  /\ Len(s) >= 1
  /\ \A i \in 1..Len(s) : 48 <= s[i] /\ s[i] <= 57
  /\ (Len(s) > 1 => s[1] # 48)

RECURSIVE NumeralValue(_)
NumeralValue(s) ==
  IF s = <<>> THEN 0
  ELSE (10 * NumeralValue(SubSeq(s, 1, Len(s) - 1))) + (s[Len(s)] - 48)

\* the result of the last call, had it been made first on a new manager
OnNewManager ==
  CASE call.op = "get_seiko_assets" ->
         get_seiko_assets(__init__, SeikoAssetManager, call.args[1])
    [] call.op = "get_product_image" ->
         get_product_image(__init__, call.args[1], call.args[2])
    [] call.op = "get_hero_banner" ->
         get_hero_banner(__init__, call.args[1])
    [] OTHER -> ret

(***************************************************************************)
(* C1  Determinism                                                         *)
(***************************************************************************)
\* C1: whatever calls were made before it, a construction call ends exactly
\* as the same call with the same arguments ends on a newly built manager;
\* hence two calls with identical arguments return identical records (all
\* five fields, seed parameters included), regardless of the calls between.
C1Determinism == call.op \in ConstructionOps => ret = OnNewManager

\* get_product_image("Seiko 5 Sports", "main") has returned its record after
\* other calls (two probes among them) were made on the manager
C1Witness ==
  /\ Returned("get_product_image")
  /\ call.args = <<<<83, 101, 105, 107, 111, 32, 53, 32, 83, 112, 111, 114, 116, 115>> (* "Seiko 5 Sports" *), <<109, 97, 105, 110>> (* "main" *)>>
  /\ ret.value.primary = <<104, 116, 116, 112, 115, 58, 47, 47, 115, 111, 117, 114, 99, 101, 46, 117, 110, 115, 112, 108, 97, 115, 104, 46, 99, 111, 109, 47, 56, 48, 48, 120, 56, 48, 48, 47, 63, 115, 101, 105, 107, 111, 37, 50, 66, 115, 101, 105, 107, 111, 37, 50, 66, 53, 37, 50, 66, 115, 112, 111, 114, 116, 115, 38, 115, 105, 103, 61>> (* "https://source.unsplash.com/800x800/?seiko%2Bseiko%2B5%2Bsports&sig=" *) \o seed_text(ret.value.fallback)
  /\ head_requests = 2

(***************************************************************************)
(* C2  Always-usable record                                                *)
(***************************************************************************)
\* C2: no construction call raises, and every record a construction call
\* returns has exactly the five fields primary, secondary, fallback, alt and
\* title.
C2AlwaysUsable ==
  call.op \in ConstructionOps =>
    /\ ret.exc = "none"
    /\ \A rec \in Records : DOMAIN rec = RecordFields

(***************************************************************************)
(* C3  Truncation                                                          *)
(***************************************************************************)
\* C3 as stated: every section of get_seiko_assets(section_count) has
\* min(section_count, number of keywords of the section) records.
C3LengthIsMin ==
  Returned("get_seiko_assets") =>
    \A section \in DOMAIN ret.value :
      Len(ret.value[section]) = Min(call.args[1], Len(SEIKO_WATCH_CATEGORIES[section]))

\* C3: every section of get_seiko_assets(section_count) has
\* max(0, min(section_count, number of keywords of the section)) records, and
\* the sections are exactly those of SEIKO_WATCH_CATEGORIES.
C3Truncation ==
  Returned("get_seiko_assets") =>
    /\ DOMAIN ret.value = DOMAIN SEIKO_WATCH_CATEGORIES
    /\ \A section \in DOMAIN ret.value :
         Len(ret.value[section]) =
           Max(0, Min(call.args[1], Len(SEIKO_WATCH_CATEGORIES[section])))

\* get_seiko_assets(20) has returned 6 records for each 6-keyword section
C3Witness ==
  /\ Returned("get_seiko_assets")
  /\ call.args[1] = 20
  /\ \A section \in DOMAIN ret.value :
       Len(SEIKO_WATCH_CATEGORIES[section]) = 6 /\ Len(ret.value[section]) = 6

(***************************************************************************)
(* C4  Modulo selection                                                    *)
(***************************************************************************)
\* C4: in the result of get_seiko_assets, the record at index i of a section
\* searches its primary URL for keywords[i mod len(keywords)] and its
\* secondary URL for fallbacks[i mod len(fallbacks)], both URL-escaped.
C4ModuloSelection ==
  Returned("get_seiko_assets") =>
    \A section \in DOMAIN ret.value :
      \A k \in DOMAIN ret.value[section] :
        LET i == k - 1
            keywords == SEIKO_WATCH_CATEGORIES[section]
            fallbacks == FALLBACK_CATEGORIES[section]
        IN  /\ query_term(ret.value[section][k].primary)
                 = quote(keywords[(i % Len(keywords)) + 1])
            /\ query_term(ret.value[section][k].secondary)
                 = quote(fallbacks[(i % Len(fallbacks)) + 1])

\* a call has returned six records for "hero", whose records at indices 4 and
\* 5 search their secondary URLs for fallback keywords 0 and 1
C4Witness ==
  /\ Returned("get_seiko_assets")
  /\ Len(ret.value[<<104, 101, 114, 111>> (* "hero" *)]) = 6
  /\ Len(FALLBACK_CATEGORIES[<<104, 101, 114, 111>> (* "hero" *)]) = 4
  /\ query_term(ret.value[<<104, 101, 114, 111>> (* "hero" *)][5].secondary) = <<108, 117, 120, 117, 114, 121>> (* "luxury" *)
  /\ query_term(ret.value[<<104, 101, 114, 111>> (* "hero" *)][6].secondary) = <<112, 114, 101, 109, 105, 117, 109>> (* "premium" *)
  /\ query_term(ret.value[<<104, 101, 114, 111>> (* "hero" *)][6].primary) = <<108, 117, 120, 117, 114, 121, 37, 50, 66, 119, 114, 105, 115, 116, 119, 97, 116, 99, 104>> (* "luxury%2Bwristwatch" *)

(***************************************************************************)
(* C5  Seed range                                                          *)
(***************************************************************************)
\* C5: the seed parameter of every URL of every record a construction call
\* returns is the numeral of an integer in 0..9999.
C5SeedRange ==
  (call.op \in ConstructionOps /\ ret.exc = "none") =>
    \A rec \in Records :
      \A url \in {rec.primary, rec.secondary, rec.fallback} :
        /\ IsNumeral(seed_text(url))
        /\ NumeralValue(seed_text(url)) \in 0..9999

\* get_product_image("Seiko Prospex Solar Diver", "detail") has returned a
\* record whose URLs carry the seed 5448
C5Witness ==
  /\ Returned("get_product_image")
  /\ call.args = <<<<83, 101, 105, 107, 111, 32, 80, 114, 111, 115, 112, 101, 120, 32, 83, 111, 108, 97, 114, 32, 68, 105, 118, 101, 114>> (* "Seiko Prospex Solar Diver" *), <<100, 101, 116, 97, 105, 108>> (* "detail" *)>>
  /\ seed_text(ret.value.primary) = <<53, 52, 52, 56>> (* "5448" *)
  /\ seed_text(ret.value.fallback) = <<53, 52, 52, 56>> (* "5448" *)

(***************************************************************************)
(* C6  Unknown image type                                                  *)
(***************************************************************************)
\* C6: get_product_image(name, t) with t outside {main, detail, lifestyle}
\* does not raise, and returns a record whose primary URL searches for the
\* (URL-escaped) term "seiko+watch" and whose secondary URL searches for
\* "luxury+timepiece", whatever the name.
C6UnknownImageType ==
  (call.op = "get_product_image" /\ call.args[2] \notin KnownImageTypes) =>
    /\ ret.exc = "none"
    /\ query_term(ret.value.primary) = quote(<<115, 101, 105, 107, 111, 43, 119, 97, 116, 99, 104>> (* "seiko+watch" *))
    /\ query_term(ret.value.secondary) = quote(<<108, 117, 120, 117, 114, 121, 43, 116, 105, 109, 101, 112, 105, 101, 99, 101>> (* "luxury+timepiece" *))

(***************************************************************************)
(* C7  Unknown collection                                                  *)
(***************************************************************************)
\* C7: get_hero_banner(k) does not raise; for k outside {luxury, sport,
\* dress, solar} its primary URL searches for the (URL-escaped) generic
\* phrase "seiko+watch+luxury", and for each of the four known keys for that
\* key's own phrase.
C7UnknownCollection ==
  call.op = "get_hero_banner" =>
    /\ ret.exc = "none"
    /\ query_term(ret.value.primary) =
         quote(CASE call.args[1] = <<108, 117, 120, 117, 114, 121>> (* "luxury" *) -> <<115, 101, 105, 107, 111, 43, 108, 117, 120, 117, 114, 121, 43, 119, 97, 116, 99, 104, 43, 99, 111, 108, 108, 101, 99, 116, 105, 111, 110>> (* "seiko+luxury+watch+collection" *)
                 [] call.args[1] = <<115, 112, 111, 114, 116>> (* "sport" *) -> <<115, 101, 105, 107, 111, 43, 112, 114, 111, 115, 112, 101, 120, 43, 115, 112, 111, 114, 116, 43, 119, 97, 116, 99, 104>> (* "seiko+prospex+sport+watch" *)
                 [] call.args[1] = <<100, 114, 101, 115, 115>> (* "dress" *) -> <<115, 101, 105, 107, 111, 43, 112, 114, 101, 115, 97, 103, 101, 43, 100, 114, 101, 115, 115, 43, 119, 97, 116, 99, 104>> (* "seiko+presage+dress+watch" *)
                 [] call.args[1] = <<115, 111, 108, 97, 114>> (* "solar" *) -> <<115, 101, 105, 107, 111, 43, 97, 115, 116, 114, 111, 110, 43, 115, 111, 108, 97, 114, 43, 119, 97, 116, 99, 104>> (* "seiko+astron+solar+watch" *)
                 [] OTHER -> <<115, 101, 105, 107, 111, 43, 119, 97, 116, 99, 104, 43, 108, 117, 120, 117, 114, 121>> (* "seiko+watch+luxury" *))

(***************************************************************************)
(* C8  Probe contract                                                      *)
(***************************************************************************)
\* C8: validate_image_url never raises and returns a boolean; it returns true
\* only when the HEAD request came back with a success status (2xx), and it
\* returns false when the request raised (a timeout, a connection error, any
\* other exception) and when the status is not a success status (404, ...).
C8ProbeContract ==
  call.op = "validate_image_url" =>
    LET success == call.outcome.kind = "response"
                     /\ call.outcome.status_code \in 200..299
    IN  /\ ret.exc = "none"
        /\ ret.value \in BOOLEAN
        /\ (ret.value = TRUE => success)
        /\ (~success => ret.value = FALSE)

\* a probe whose HEAD request was interrupted from the keyboard has returned
\* false
C8Witness ==
  /\ Returned("validate_image_url")
  /\ call.outcome = Raised("KeyboardInterrupt")
  /\ ret.value = FALSE

(***************************************************************************)
(* C9  Image-type templates                                                *)
(***************************************************************************)
\* the name as the templates use it: lower-cased, spaces replaced by "+"
NormalizedName(name) == [i \in 1..Len(name) |->
  IF name[i] = 32 THEN 43 ELSE IF IsUpper(name[i]) THEN name[i] + 32 ELSE name[i]]

\* the ordered pair of terms of a known image type
TemplatePair(name, image_type) ==
  CASE image_type = <<109, 97, 105, 110>> (* "main" *) -> <<<<115, 101, 105, 107, 111, 43>> (* "seiko+" *) \o NormalizedName(name), NormalizedName(name) \o <<43, 119, 97, 116, 99, 104>> (* "+watch" *)>>
    [] image_type = <<100, 101, 116, 97, 105, 108>> (* "detail" *) -> <<NormalizedName(name) \o <<43, 100, 101, 116, 97, 105, 108>> (* "+detail" *), <<119, 97, 116, 99, 104, 43, 109, 101, 99, 104, 97, 110, 105, 115, 109>> (* "watch+mechanism" *)>>
    [] image_type = <<108, 105, 102, 101, 115, 116, 121, 108, 101>> (* "lifestyle" *) -> <<NormalizedName(name) \o <<43, 108, 105, 102, 101, 115, 116, 121, 108, 101>> (* "+lifestyle" *), <<119, 97, 116, 99, 104, 43, 119, 114, 105, 115, 116>> (* "watch+wrist" *)>>

\* C9 as stated: the record returned for a known image type searches for the
\* two terms of the type's pair, and the primary URL returned for
\* ("Seiko Prospex Solar Diver", "detail") contains the text
\* seiko+prospex+solar+diver+detail.
C9TermInUrl ==
  (Returned("get_product_image") /\ call.args[2] \in KnownImageTypes) =>
    /\ query_term(ret.value.primary) = quote(TemplatePair(call.args[1], call.args[2])[1])
    /\ query_term(ret.value.secondary) = quote(TemplatePair(call.args[1], call.args[2])[2])
    /\ (call.args = <<<<83, 101, 105, 107, 111, 32, 80, 114, 111, 115, 112, 101, 120, 32, 83, 111, 108, 97, 114, 32, 68, 105, 118, 101, 114>> (* "Seiko Prospex Solar Diver" *), <<100, 101, 116, 97, 105, 108>> (* "detail" *)>> =>
          Contains(ret.value.primary, <<115, 101, 105, 107, 111, 43, 112, 114, 111, 115, 112, 101, 120, 43, 115, 111, 108, 97, 114, 43, 100, 105, 118, 101, 114, 43, 100, 101, 116, 97, 105, 108>> (* "seiko+prospex+solar+diver+detail" *)))

\* C9: the record returned for a known image type has as the search text of
\* its primary URL the URL-escaped first term, and of its secondary URL the
\* URL-escaped second term, of the type's pair; escaping turns each "+" into
\* "%2B", so the primary URL returned for ("Seiko Prospex Solar Diver",
\* "detail") contains seiko%2Bprospex%2Bsolar%2Bdiver%2Bdetail.
C9Templates ==
  (Returned("get_product_image") /\ call.args[2] \in KnownImageTypes) =>
    /\ query_term(ret.value.primary) = quote(TemplatePair(call.args[1], call.args[2])[1])
    /\ query_term(ret.value.secondary) = quote(TemplatePair(call.args[1], call.args[2])[2])
    /\ (call.args = <<<<83, 101, 105, 107, 111, 32, 80, 114, 111, 115, 112, 101, 120, 32, 83, 111, 108, 97, 114, 32, 68, 105, 118, 101, 114>> (* "Seiko Prospex Solar Diver" *), <<100, 101, 116, 97, 105, 108>> (* "detail" *)>> =>
          /\ Contains(ret.value.primary, <<115, 101, 105, 107, 111, 37, 50, 66, 112, 114, 111, 115, 112, 101, 120, 37, 50, 66, 115, 111, 108, 97, 114, 37, 50, 66, 100, 105, 118, 101, 114, 37, 50, 66, 100, 101, 116, 97, 105, 108>> (* "seiko%2Bprospex%2Bsolar%2Bdiver%2Bdetail" *))
          /\ query_term(ret.value.secondary) = <<119, 97, 116, 99, 104, 37, 50, 66, 109, 101, 99, 104, 97, 110, 105, 115, 109>> (* "watch%2Bmechanism" *))

\* get_product_image("Seiko Prospex Solar Diver", "detail") has returned
\* this primary URL
C9Witness ==
  /\ Returned("get_product_image")
  /\ call.args = <<<<83, 101, 105, 107, 111, 32, 80, 114, 111, 115, 112, 101, 120, 32, 83, 111, 108, 97, 114, 32, 68, 105, 118, 101, 114>> (* "Seiko Prospex Solar Diver" *), <<100, 101, 116, 97, 105, 108>> (* "detail" *)>>
  /\ ret.value.primary = <<104, 116, 116, 112, 115, 58, 47, 47, 115, 111, 117, 114, 99, 101, 46, 117, 110, 115, 112, 108, 97, 115, 104, 46, 99, 111, 109, 47, 56, 48, 48, 120, 56, 48, 48, 47, 63, 115, 101, 105, 107, 111, 37, 50, 66, 112, 114, 111, 115, 112, 101, 120, 37, 50, 66, 115, 111, 108, 97, 114, 37, 50, 66, 100, 105, 118, 101, 114, 37, 50, 66, 100, 101, 116, 97, 105, 108, 38, 115, 105, 103, 61, 53, 52, 52, 56>> (* "https://source.unsplash.com/800x800/?seiko%2Bprospex%2Bsolar%2Bdiver%2Bdetail&sig=5448" *)

(***************************************************************************)
(* C10  Hero secondary                                                     *)
(***************************************************************************)
\* C10: the secondary URL of every record get_hero_banner returns searches
\* for "luxury+timepiece", and apart from its seed parameter it is the same
\* URL for every collection key.
C10HeroSecondary ==
  Returned("get_hero_banner") =>
    /\ query_term(ret.value.secondary) = <<108, 117, 120, 117, 114, 121, 43, 116, 105, 109, 101, 112, 105, 101, 99, 101>> (* "luxury+timepiece" *)
    /\ without_seed(ret.value.secondary) = <<104, 116, 116, 112, 115, 58, 47, 47, 115, 111, 117, 114, 99, 101, 46, 117, 110, 115, 112, 108, 97, 115, 104, 46, 99, 111, 109, 47, 49, 57, 50, 48, 120, 54, 48, 48, 47, 63, 108, 117, 120, 117, 114, 121, 43, 116, 105, 109, 101, 112, 105, 101, 99, 101, 38, 115, 105, 103, 61>> (* "https://source.unsplash.com/1920x600/?luxury+timepiece&sig=" *)
    /\ IsNumeral(seed_text(ret.value.secondary))

\* get_hero_banner("sport") has returned a record whose primary URL searches
\* for the sport phrase and whose secondary URL for the constant one
C10Witness ==
  /\ Returned("get_hero_banner")
  /\ call.args = <<<<115, 112, 111, 114, 116>> (* "sport" *)>>
  /\ query_term(ret.value.primary) = <<115, 101, 105, 107, 111, 37, 50, 66, 112, 114, 111, 115, 112, 101, 120, 37, 50, 66, 115, 112, 111, 114, 116, 37, 50, 66, 119, 97, 116, 99, 104>> (* "seiko%2Bprospex%2Bsport%2Bwatch" *)
  /\ query_term(ret.value.secondary) = <<108, 117, 120, 117, 114, 121, 43, 116, 105, 109, 101, 112, 105, 101, 99, 101>> (* "luxury+timepiece" *)

(***************************************************************************)
(* C11  One seed per record                                                *)
(***************************************************************************)
\* the fallback URL of an operation's image size for a seed parameter
FallbackUrl(op, seed_parameter) ==
  <<104, 116, 116, 112, 115, 58, 47, 47, 112, 105, 99, 115, 117, 109, 46, 112, 104, 111, 116, 111, 115>> (* "https://picsum.photos" *)
    \o (CASE op = "get_seiko_assets" -> <<47, 49, 50, 48, 48, 47, 56, 48, 48, 63, 114, 97, 110, 100, 111, 109, 61>> (* "/1200/800?random=" *)
          [] op = "get_product_image" -> <<47, 56, 48, 48, 47, 56, 48, 48, 63, 114, 97, 110, 100, 111, 109, 61>> (* "/800/800?random=" *)
          [] op = "get_hero_banner" -> <<47, 49, 57, 50, 48, 47, 54, 48, 48, 63, 114, 97, 110, 100, 111, 109, 61>> (* "/1920/600?random=" *))
    \o seed_parameter

\* C11: in every record a construction call returns, the primary, the
\* secondary and the fallback URL carry the same seed parameter, and the
\* fallback URL is determined by the operation's image size and that seed
\* alone.
C11OneSeedPerRecord ==
  (call.op \in ConstructionOps /\ ret.exc = "none") =>
    \A rec \in Records :
      /\ seed_text(rec.primary) = seed_text(rec.fallback)
      /\ seed_text(rec.secondary) = seed_text(rec.fallback)
      /\ rec.fallback = FallbackUrl(call.op, seed_text(rec.fallback))

\* get_hero_banner("sport") has returned; its three URLs carry one seed and
\* search for different things
C11Witness ==
  /\ Returned("get_hero_banner")
  /\ call.args = <<<<115, 112, 111, 114, 116>> (* "sport" *)>>
  /\ seed_text(ret.value.primary) = seed_text(ret.value.secondary)
  /\ seed_text(ret.value.secondary) = seed_text(ret.value.fallback)
  /\ ret.value.fallback = <<104, 116, 116, 112, 115, 58, 47, 47, 112, 105, 99, 115, 117, 109, 46, 112, 104, 111, 116, 111, 115, 47, 49, 57, 50, 48, 47, 54, 48, 48, 63, 114, 97, 110, 100, 111, 109, 61>> (* "https://picsum.photos/1920/600?random=" *) \o seed_text(ret.value.primary)
  /\ query_term(ret.value.primary) # query_term(ret.value.secondary)

(***************************************************************************)
(* C12  Seed key of the end-to-end example                                 *)
(***************************************************************************)
\* the last call is the example get_product_image("Seiko Prospex Solar
\* Diver", "detail") and has returned
ExampleReturned ==
  /\ Returned("get_product_image")
  /\ call.args = <<<<83, 101, 105, 107, 111, 32, 80, 114, 111, 115, 112, 101, 120, 32, 83, 111, 108, 97, 114, 32, 68, 105, 118, 101, 114>> (* "Seiko Prospex Solar Diver" *), <<100, 101, 116, 97, 105, 108>> (* "detail" *)>>

\* the three URLs of the returned record carry the seed formula's value for
\* key
ExampleSeedIsOf(key) ==
  \A url \in {ret.value.primary, ret.value.secondary, ret.value.fallback} :
    seed_text(url) = str(md5_seed(key))

\* C12 as stated: the seed in the three URLs of the example is the seed
\* formula applied to "seiko prospex solar diver_detail".
C12SpaceSeparatedKey ==
  ExampleReturned => ExampleSeedIsOf(<<115, 101, 105, 107, 111, 32, 112, 114, 111, 115, 112, 101, 120, 32, 115, 111, 108, 97, 114, 32, 100, 105, 118, 101, 114, 95, 100, 101, 116, 97, 105, 108>> (* "seiko prospex solar diver_detail" *))

\* C12: the seed in the three URLs of the example is the seed formula (MD5,
\* first eight hex digits, modulo 10000) applied to
\* "seiko+prospex+solar+diver_detail", the key with the spaces of the name
\* replaced by "+"; that seed is 5448.
C12ReferenceKey ==
  ExampleReturned =>
    /\ ExampleSeedIsOf(<<115, 101, 105, 107, 111, 43, 112, 114, 111, 115, 112, 101, 120, 43, 115, 111, 108, 97, 114, 43, 100, 105, 118, 101, 114, 95, 100, 101, 116, 97, 105, 108>> (* "seiko+prospex+solar+diver_detail" *))
    /\ seed_text(ret.value.fallback) = <<53, 52, 52, 56>> (* "5448" *)

\* the example has returned these secondary and fallback URLs
C12Witness ==
  /\ ExampleReturned
  /\ ret.value.secondary = <<104, 116, 116, 112, 115, 58, 47, 47, 115, 111, 117, 114, 99, 101, 46, 117, 110, 115, 112, 108, 97, 115, 104, 46, 99, 111, 109, 47, 56, 48, 48, 120, 56, 48, 48, 47, 63, 119, 97, 116, 99, 104, 37, 50, 66, 109, 101, 99, 104, 97, 110, 105, 115, 109, 38, 115, 105, 103, 61, 53, 52, 52, 56>> (* "https://source.unsplash.com/800x800/?watch%2Bmechanism&sig=5448" *)
  /\ ret.value.fallback = <<104, 116, 116, 112, 115, 58, 47, 47, 112, 105, 99, 115, 117, 109, 46, 112, 104, 111, 116, 111, 115, 47, 56, 48, 48, 47, 56, 48, 48, 63, 114, 97, 110, 100, 111, 109, 61, 53, 52, 52, 56>> (* "https://picsum.photos/800/800?random=5448" *)

(***************************************************************************)
(* C13  Seed from the normalized name                                      *)
(***************************************************************************)
\* C13: the seed in the URLs get_product_image(name, t) returns is the seed
\* formula applied to NormalizedName(name) + "_" + t, and the three URLs are
\* those returned for the normalized name itself; hence names with one
\* normalized form, requested with one image type, get identical primary,
\* secondary and fallback URLs.
C13SeedFromNormalizedName ==
  Returned("get_product_image") =>
    LET normalized == NormalizedName(call.args[1])
        same == get_product_image(__init__, normalized, call.args[2])
    IN  /\ seed_text(ret.value.fallback) =
             str(md5_seed(normalized \o <<95>> (* "_" *) \o call.args[2]))
        /\ same.exc = "none"
        /\ ret.value.primary = same.value.primary
        /\ ret.value.secondary = same.value.secondary
        /\ ret.value.fallback = same.value.fallback

\* get_product_image("seiko prospex solar diver", "detail") has returned the
\* URLs of "Seiko Prospex Solar Diver" under its own title
C13Witness ==
  /\ Returned("get_product_image")
  /\ call.args = <<<<115, 101, 105, 107, 111, 32, 112, 114, 111, 115, 112, 101, 120, 32, 115, 111, 108, 97, 114, 32, 100, 105, 118, 101, 114>> (* "seiko prospex solar diver" *), <<100, 101, 116, 97, 105, 108>> (* "detail" *)>>
  /\ ret.value.primary = <<104, 116, 116, 112, 115, 58, 47, 47, 115, 111, 117, 114, 99, 101, 46, 117, 110, 115, 112, 108, 97, 115, 104, 46, 99, 111, 109, 47, 56, 48, 48, 120, 56, 48, 48, 47, 63, 115, 101, 105, 107, 111, 37, 50, 66, 112, 114, 111, 115, 112, 101, 120, 37, 50, 66, 115, 111, 108, 97, 114, 37, 50, 66, 100, 105, 118, 101, 114, 37, 50, 66, 100, 101, 116, 97, 105, 108, 38, 115, 105, 103, 61, 53, 52, 52, 56>> (* "https://source.unsplash.com/800x800/?seiko%2Bprospex%2Bsolar%2Bdiver%2Bdetail&sig=5448" *)
  /\ ret.value.primary = get_product_image(__init__, <<83, 101, 105, 107, 111, 32, 80, 114, 111, 115, 112, 101, 120, 32, 83, 111, 108, 97, 114, 32, 68, 105, 118, 101, 114>> (* "Seiko Prospex Solar Diver" *), <<100, 101, 116, 97, 105, 108>> (* "detail" *)).value.primary
  /\ ret.value.title = <<115, 101, 105, 107, 111, 32, 112, 114, 111, 115, 112, 101, 120, 32, 115, 111, 108, 97, 114, 32, 100, 105, 118, 101, 114>> (* "seiko prospex solar diver" *)

(***************************************************************************)
(* C14  No shared mutable state                                            *)
(***************************************************************************)
\* how operation op ends for args when nothing else runs, on a new manager
RunAlone(op, args) ==
  CASE op = "get_seiko_assets" -> get_seiko_assets(__init__, SeikoAssetManager, args[1])
    [] op = "get_product_image" -> get_product_image(__init__, args[1], args[2])
    [] op = "get_hero_banner" -> get_hero_banner(__init__, args[1])

\* C14: under every interleaving of the threads' calls, a call that has
\* finished has ended exactly as it ends when run alone, and the keyword
\* table, the fallback table and the manager's fields are what they were
\* when the manager was built.
C14NoSharedMutableState ==
  /\ \A t \in Threads :
       threads[t].pc = "done" => threads[t].ret = RunAlone(threads[t].op, threads[t].args)
  /\ class_attrs.SEIKO_WATCH_CATEGORIES = SEIKO_WATCH_CATEGORIES
  /\ class_attrs.FALLBACK_CATEGORIES = FALLBACK_CATEGORIES
  /\ asset_manager = __init__

\* a get_seiko_assets call has returned its six sections while another
\* thread is half-way through its own get_seiko_assets call
C14Witness ==
  \E t, u \in Threads :
    /\ t # u
    /\ threads[t].pc = "done"
    /\ threads[t].op = "get_seiko_assets"
    /\ threads[t].ret.exc = "none"
    /\ Len(threads[t].ret.value[<<116, 114, 117, 115, 116>> (* "trust" *)]) = 6
    /\ threads[u].pc = "running"
    /\ threads[u].op = "get_seiko_assets"
    /\ Len(threads[u].assets) = 3

(***************************************************************************)
(* C15  Network requests                                                   *)
(***************************************************************************)
\* url names an http or https resource: the scheme and something after it
HasHttpScheme(url) ==
  \E scheme \in {<<104, 116, 116, 112, 58, 47, 47>> (* "http://" *), <<104, 116, 116, 112, 115, 58, 47, 47>> (* "https://" *)} :
    Len(url) > Len(scheme) /\ SubSeq(url, 1, Len(scheme)) = scheme

C16ProductAltTitle ==
  call.op = "get_product_image" =>
    /\ ret.exc = "none"
    /\ ret.value.title = call.args[1]
    /\ ret.value.alt = call.args[1] \o <<32, 45, 32, 80, 114, 111, 102, 101, 115, 115, 105, 111, 110, 97, 108, 32, 119, 97, 116, 99, 104, 32, 112, 104, 111, 116, 111, 103, 114, 97, 112, 104, 121>> (* " - Professional watch photography" *)

(***************************************************************************)
(* C17  Prefix stability                                                   *)
(***************************************************************************)
\* p is an initial part of s
PrefixOf(p, s) == Len(p) <= Len(s) /\ \A i \in 1..Len(p) : p[i] = s[i]

\* C17: when get_seiko_assets(m) is followed by get_seiko_assets(n) with
\* m <= n, every section's sequence of the first result is an initial part
\* of that section's sequence of the second.
C17PrefixStability ==
  [][(/\ call.op = "get_seiko_assets" /\ ret.exc = "none"
      /\ call'.op = "get_seiko_assets" /\ ret'.exc = "none"
      /\ call.args[1] <= call'.args[1])
     => \A section \in DOMAIN ret.value :
          PrefixOf(ret.value[section], ret'.value[section])]_vars

\* get_seiko_assets(3) has returned, for every section, the first three of
\* the six records get_seiko_assets(20) returns
C17Witness ==
  /\ Returned("get_seiko_assets")
  /\ call.args[1] = 3
  /\ \A section \in DOMAIN ret.value :
       /\ Len(ret.value[section]) = 3
       /\ Len(get_seiko_assets(asset_manager, class_attrs, 20).value[section]) = 6
       /\ ret.value[section] =
            SubSeq(get_seiko_assets(asset_manager, class_attrs, 20).value[section], 1, 3)

\* the sample data in full: every row of create_sample_data is in its table
SampleData == [categories |-> categories, products |-> products, users |-> sample_users]

\* C18: seeding is idempotent.  init_database goes into create_sample_data only
\* when the categories table is empty, so once a call has returned, in a run on
\* an initially empty database whose calls all succeeded, the store holds the 4
\* categories, 7 products and 2 users of the sample data and nothing else; it
\* holds them in every state from then on, so every later call, while it runs
\* and when it returns, leaves the database as it found it.
C18SeedingIdempotent ==
  /\ init_db.pc = "add_categories" => database.categories = {}
  /\ (init_calls.returned >= 1 /\ init_calls.raised = 0) =>
       /\ database = SampleData
       /\ Cardinality(database.categories) = 4
       /\ Cardinality(database.products) = 7
       /\ Cardinality(database.users) = 2

\* three calls have returned, none raised, and the store holds the sample data once
C18Witness ==
  /\ init_db.pc = "idle"
  /\ init_calls = [returned |-> 3, raised |-> 0]
  /\ Cardinality(database.categories) = 4
  /\ Cardinality(database.products) = 7
  /\ Cardinality(database.users) = 2

\* C19: sessions are always closed.  Once init_database has finished, by return
\* or by raise, the session it opened is closed; once a get_db_session generator
\* has finished, because its consumer completed, raised, or dropped it, the
\* session it opened is closed; so when no operation is in progress no session
\* is open.
C19SessionsClosed ==
  /\ init_db.pc = "idle" => InitSession \notin open_sessions
  /\ \A g \in Generators :
       generators[g] \in {"none", "exhausted", "raised", "closed"} =>
         GeneratorSession(g) \notin open_sessions
  /\ (init_db.pc = "idle" /\ \A g \in Generators : generators[g] # "suspended") =>
       open_sessions = {}

\* init_database has raised after the first commit of create_sample_data, one
\* consumer of get_db_session has raised and one has completed, and no session is open
C19Witness ==
  /\ init_db.pc = "idle"
  /\ init_calls.raised >= 1
  /\ database = [categories |-> categories, products |-> {}, users |-> {}]
  /\ generators[1] = "raised"
  /\ generators[2] = "exhausted"
  /\ open_sessions = {}

====
